---- MODULE Spec2Model ----
(***************************************************************************)
(* Verification model of d10r/sup-metrics-api.                             *)
(*                                                                         *)
(* Part 1: the generic MetricsManager<T> (disk persistence, schema         *)
(*         versioning, staleness detection, guarded periodic refresh).     *)
(* Part 2: the voting-metrics aggregator (delegated voting power, member   *)
(*         map, ordering).                                                 *)
(* Part 3: the distribution metrics, the Query Facade, the paginated       *)
(*         fetcher and the space configuration cache.                      *)
(* Part 4: the batched scoring call, getVotingPowerBatch(), and the pool    *)
(*         discovery of a refresh.                                         *)
(* Part 5: the process as a whole: the unified-scores MetricManager and    *)
(*         its file, two managers side by side, the interval-driven        *)
(*         MetricManager, calculateTotalScore() and createPeriodicTask().  *)
(***************************************************************************)
EXTENDS Integers, Sequences, FiniteSets, TLC

----------------------------------------------------------------------------
(* Program constants *)

FILE_SCHEMA_VERSION == 3

(* Bounds of the model *)

\* largest configured refresh interval (seconds)
MaxInterval == 2
\* how many seconds the clock may advance after process start
MaxElapsed == 2
\* number of distinct non-default values the compute function may return
MaxData == 1
\* number of process restarts explored
MaxRestarts == 1

\* largest number of delegation edges returned upstream
MaxEdges == 2

\* largest number of lockers the locker subgraph lists
MaxLockers == 3

\* largest item id of a paginated upstream collection
MaxId == 5

\* how many seconds the clock may advance around getSpaceConfig() calls
MaxCfgElapsed == 3
\* largest number of getSpaceConfig() calls awaiting the hub at once
MaxCalls == 2

\* largest number of addresses handed to getVotingPowerBatch()
MaxAddrs == 3
\* largest config.vpCalcChunkSize
MaxChunk == 2
\* largest number of distribution events of the program manager upstream
MaxEvents == 3
\* seconds the clock of part 5 runs
MaxClock == 3

\* The wall clock at process start. Unix time is far larger than any refresh
\* interval, so a timestamp of 0 is always older than the interval.
StartTime == MaxInterval + 1
EndTime == StartTime + MaxElapsed

\* initialData passed to the constructor, and the values updateFn may return
InitialData == 0
DataValues == 0..MaxData
IntervalValues == (0 - 1)..MaxInterval

----------------------------------------------------------------------------
(* State *)

VARIABLES
    phase,              \* "new": module not yet evaluated; "running": manager constructed
    intervalSec,        \* this.intervalSec (config.*UpdateInterval)
    skipInitialUpdate,  \* process.env.SKIP_INITIAL_UPDATE is set
    now,                \* Math.floor(Date.now() / 1000)
    data,               \* this.data : MetricsData<T>
    file,               \* content of this.filePath on disk
    isUpdating,         \* this.isUpdating
    intervalId,         \* this.intervalId !== null (timer armed)
    nextFire,           \* time at which the setInterval timer is due next
    pending,            \* number of updateFn() invocations whose promise is unsettled
    updateResult,       \* how the most recent update() call stands
    errorsLogged,       \* kinds of console.error / console.warn lines written so far
    got,                \* value returned by the most recent getData()
    op,                 \* the operation that produced the current state
    ticks,              \* 1 once a timer callback has run since construction, else 0
    loadedAtStart,      \* what loadFromFile() returned in the constructor
    preRefresh,         \* snapshot pair held when the refresh in flight began
    lastCommit,         \* snapshot pair installed by the latest commit (default, load, refresh)
    restarts            \* process restarts so far

mgrVars == <<phase, intervalSec, skipInitialUpdate, now, data, file, isUpdating,
             intervalId, nextFire, pending, updateResult, errorsLogged, got, op,
             ticks, loadedAtStart, preRefresh, lastCommit, restarts>>

VARIABLES
    aggPc,              \* "inputs": upstream data fixed, aggregator not yet run; "done"
    investorsAndTeam,   \* result of getInvestorsAndTeamAddresses()
    pools,              \* per pool, its members and what lockerOwner() answers for each
    lockerOwners,       \* resolved (locker, owner) pairs in the order the pools yield them
    delegations,        \* delegation edges returned by queryAllPages, in id order
    scores,             \* own score per lowercase address as the scoring engine reports it
    ownVotingPowers,    \* result of getVotingPowerBatch(uniqueAccountsArray, false)
    delegatedVotingPower, \* Map delegate -> summed delegated voting power
    delegatorCount,     \* Map delegate -> number of counted delegators
    members             \* the returned object, as the sequence of its entries in iteration order

aggVars == <<aggPc, investorsAndTeam, pools, lockerOwners, delegations, scores, ownVotingPowers,
             delegatedVotingPower, delegatorCount, members>>

VARIABLES
    distPc,             \* "idle"; "inputs": chain state fixed; "done"; "failed"
    chain,              \* what the chain and the subgraphs answer to fetchDistributionMetrics
    lockerBatches,      \* the batches of lockers read so far
    metrics             \* the DistributionMetrics object fetchDistributionMetrics returned

distVars == <<distPc, chain, lockerBatches, metrics>>

VARIABLES
    votingData,         \* what votingMetricsManager.getData() returns
    distData,           \* what distributionMetricsManager.getData() returns
    scoreData,          \* the total score part of what unifiedScoresManager.getData() returns
    request,            \* the Query Facade accessor called last, with its arguments
    response            \* what that accessor returned

facadeVars == <<votingData, distData, scoreData, request, response>>

VARIABLES
    pagePc,             \* queryAllPages: "idle", "running", "returned" or "threw"
    upstream,           \* ids of the items the endpoint holds, ascending
    stopEarly,          \* process.env.STOP_EARLY is set
    lastId,             \* the local lastId
    items,              \* the local items
    pageLog             \* the requests issued so far: cursor sent, kind of answer, ids returned

pageVars == <<pagePc, upstream, stopEarly, lastId, items, pageLog>>

VARIABLES
    cachedSpaceConfig,  \* the module-level cachedSpaceConfig
    cfgNow,             \* Math.floor(Date.now() / 1000) as getSpaceConfig() reads it
    cfgCalls,           \* the values of `now` of the calls awaiting the hub's answer
    cfgLast             \* the latest step of a getSpaceConfig() call: what it did, the
                        \* call's `now`, the cache it met and the value it returned

cfgVars == <<cachedSpaceConfig, cfgNow, cfgCalls, cfgLast>>

VARIABLES
    batchPc,            \* getVotingPowerBatch: "idle", "config", "chunking" (in the chunk
                        \* loop), "scoring", "returned", "threw"
    batchIn,            \* its arguments, config.vpCalcChunkSize, the space config's
                        \* strategies and the scores the engine holds
    sent,               \* the local strategies
    chunks,             \* the local chunks
    chunkI,             \* the loop index i, counted from 1
    allScores,          \* the local allScores
    scoreCalls,         \* the getScoresDirect() calls made: strategies and addresses
    batchResult         \* the value returned

batchVars == <<batchPc, batchIn, sent, chunks, chunkI, allScores, scoreCalls, batchResult>>

VARIABLES
    discPc,             \* pool discovery: "idle", "query", "done", "threw"
    poolEvents,         \* pool ids of the program manager's distribution events upstream
    uniquePools         \* the local uniquePools, in insertion order

discVars == <<discPc, poolEvents, uniquePools>>

VARIABLES
    sysPart,            \* which component of part 5 is exercised ("none": part 5 at rest)
    sysNow,             \* Math.floor(Date.now() / 1000) / the timer clock of part 5
    usState,            \* unifiedScoresManager.state: data (a UnifiedScores) and lastUpdatedAt
    usFile,             \* content of data/unifiedScores.json
    usPc,               \* "ready", or "fetching" while this.isUpdating
    usFetchAt,          \* the local currentTimestamp of the fetchUnifiedScores() in flight
    usRestarted,        \* the process has been restarted
    usBefore,           \* what getData() returned just before the restart
    usAfter             \* what getData() returned right after loadFromFile()

usVars == <<usState, usFile, usPc, usFetchAt, usRestarted, usBefore, usAfter>>

VARIABLES
    mgrs,               \* votingMetricsManager and distributionMetricsManager: of each,
                        \* isUpdating, the unsettled updateFn() calls, this.data, its file
                        \* and how its latest update() call stands
    pairOp              \* the latest operation on one of the two, and on which

pairVars == <<mgrs, pairOp>>

VARIABLES
    oldPc,              \* the interval-driven MetricManager: "new" or "running"
    oldState,           \* its this.state: data and lastUpdatedAt (with the schema version)
    oldFile,            \* content of its file
    oldInFlight,        \* number of its updateFn() invocations whose promise is unsettled
    oldTimer            \* its setInterval timer: intervalSec and the time it is due next

oldVars == <<oldPc, oldState, oldFile, oldInFlight, oldTimer>>

VARIABLES
    totalPc,            \* calculateTotalScore: "idle", "done" or "threw"
    totalIn,            \* the events the subgraph answered with, config.additionalTotalScore
                        \* and the local currentTimestamp
    totalOut            \* the TotalScoreData returned

totalVars == <<totalPc, totalIn, totalOut>>

VARIABLES
    taskInterval,       \* intervalMs of the periodic task, in clock units (0: not started)
    taskTimers,         \* the times at which the pending setTimeout(runTask) timers are due
    taskInFlight,       \* number of runTask() executions awaiting task()
    taskLast            \* when the latest execution started, when the latest one to
                        \* finish did so, and how

taskVars == <<taskInterval, taskTimers, taskInFlight, taskLast>>

sysVars == <<sysPart, sysNow, usVars, pairVars, oldVars, totalVars, taskVars>>

moreVars == <<batchVars, discVars, sysVars>>

extVars == <<distVars, facadeVars, pageVars, cfgVars, moreVars>>

vars == <<mgrVars, aggVars, extVars>>

----------------------------------------------------------------------------
(* File contents *)

NoFile == [kind |-> "absent", schemaVersion |-> 0, lastUpdatedAt |-> 0, data |-> 0]
CorruptFile == [kind |-> "corrupt", schemaVersion |-> 0, lastUpdatedAt |-> 0, data |-> 0]
\* variant: only the payload is serialised, without the version/timestamp wrapper
JsonFile_DataOnly(d) == [kind |-> "json", schemaVersion |-> 0, lastUpdatedAt |-> 0,
                         data |-> d.data]
JsonFile(d) == [kind |-> "json", schemaVersion |-> d.schemaVersion,
                lastUpdatedAt |-> d.lastUpdatedAt, data |-> d.data]

\* files that may be on disk when the process starts
InitialFiles ==
    {NoFile, CorruptFile} \cup
    { [kind |-> "json", schemaVersion |-> v, lastUpdatedAt |-> t, data |-> d] :
        v \in {FILE_SCHEMA_VERSION - 1, FILE_SCHEMA_VERSION},
        t \in 0..StartTime,
        d \in DataValues }

NoRead == [data |-> 0 - 1, lastUpdatedAt |-> 0 - 1]
SnapshotPair(d) == [data |-> d.data, lastUpdatedAt |-> d.lastUpdatedAt]

----------------------------------------------------------------------------
(* MetricsManager<T> methods *)

\* constructor: this.data = { schemaVersion, lastUpdatedAt: 0, data: initialData }
DefaultData == [schemaVersion |-> FILE_SCHEMA_VERSION, lastUpdatedAt |-> 0, data |-> InitialData]

\* getData()
GetDataResult(d) == [data |-> d.data, lastUpdatedAt |-> d.lastUpdatedAt]

\* variant: the schema version of the file is not compared
LoadFromFile_NoVersionCheck(f, cur) ==
    IF f.kind = "absent" THEN [loaded |-> FALSE, data |-> cur, logged |-> {}]
    ELSE IF f.kind = "corrupt" THEN [loaded |-> FALSE, data |-> cur, logged |-> {"load"}]
    ELSE [loaded |-> TRUE,
          data |-> [schemaVersion |-> f.schemaVersion, lastUpdatedAt |-> f.lastUpdatedAt,
                    data |-> f.data],
          logged |-> {}]

\* loadFromFile(): returns whether a file was adopted, the resulting this.data and
\* what was logged (a warning on version mismatch, an error on a parse failure)
LoadFromFile(f, cur) ==
    IF f.kind = "absent" THEN [loaded |-> FALSE, data |-> cur, logged |-> {}]
    ELSE IF f.kind = "corrupt" THEN [loaded |-> FALSE, data |-> cur, logged |-> {"load"}]
    ELSE IF f.schemaVersion # FILE_SCHEMA_VERSION
         THEN [loaded |-> FALSE, data |-> cur, logged |-> {"mismatch"}]
    ELSE [loaded |-> TRUE,
          data |-> [schemaVersion |-> f.schemaVersion, lastUpdatedAt |-> f.lastUpdatedAt,
                    data |-> f.data],
          logged |-> {}]

\* outcomes of fs.writeFileSync: written; failed before the file was opened;
\* failed after the file was opened for writing (content truncated)
WriteOutcomes == {"ok", "failed", "truncated"}

\* saveToFile(): the write error is caught inside and logged
SaveToFile(d, f, w) ==
    IF w = "ok" THEN [file |-> JsonFile(d), threw |-> FALSE, logged |-> {}]
    ELSE IF w = "failed" THEN [file |-> f, threw |-> FALSE, logged |-> {"save"}]
    ELSE [file |-> CorruptFile, threw |-> FALSE, logged |-> {"save"}]

\* variant: data exactly as old as the interval still counts as fresh
NeedsUpdate_Strict(interval, d, t) ==
    IF interval <= 0 THEN FALSE
    ELSE IF d.lastUpdatedAt = 0 THEN TRUE
    ELSE t - d.lastUpdatedAt > interval

\* needsUpdate()
NeedsUpdate(interval, d, t) ==
    IF interval <= 0 THEN FALSE
    ELSE IF d.lastUpdatedAt = 0 THEN TRUE
    ELSE t - d.lastUpdatedAt >= interval

\* variant: no isUpdating check
UpdateStart_NoGuard(updating, p) ==
    [isUpdating |-> TRUE, pending |-> p + 1, result |-> "pending"]

\* update(), synchronous part up to `await this.updateFn()`
UpdateStart(updating, p) ==
    IF updating
    THEN [isUpdating |-> TRUE, pending |-> p, result |-> "skipped"]
    ELSE [isUpdating |-> TRUE, pending |-> p + 1, result |-> "pending"]

\* variant: the payload is replaced but the timestamp is not
NewSnapshot_Torn(old, newData, t) ==
    [schemaVersion |-> FILE_SCHEMA_VERSION, lastUpdatedAt |-> old.lastUpdatedAt,
     data |-> newData]

\* update(), the assignment to this.data after updateFn() resolved
NewSnapshot(old, newData, t) ==
    [schemaVersion |-> FILE_SCHEMA_VERSION, lastUpdatedAt |-> t, data |-> newData]

\* variant: the catch block falls back to the initial value
UpdateCatch_Reset(d, f) ==
    [data |-> DefaultData, file |-> f, result |-> "resolved", logged |-> {"update"}]

\* variant: the catch block logs and rethrows
UpdateCatch_Rethrow(d, f) ==
    [data |-> d, file |-> f, result |-> "rejected", logged |-> {"update"}]

\* update(), catch block: the error thrown inside the try is logged and swallowed;
\* this.data and the file are as the try block left them
UpdateCatch(d, f) ==
    [data |-> d, file |-> f, result |-> "resolved", logged |-> {"update"}]

\* variant: no finally block, the flag is left as it is
UpdateFinally_Keep(updating) == updating

\* update(), finally block
UpdateFinally(updating) == FALSE

----------------------------------------------------------------------------
(* Voting-metrics aggregator: fetchVotingMetrics() *)

\* addresses as the upstream sources spell them; "0xD" is "0xd" in mixed case
RawAddrs == {"0xa", "0xb", "0xd", "0xD"}
VpValues == {0, 50, 100}

\* String.prototype.toLowerCase on the addresses of the model
ToLowerCase(s) == IF s = "0xD" THEN "0xd" ELSE s

LowerAddrs == {ToLowerCase(a) : a \in RawAddrs}

\* absent optional fields of MemberData
NoValue == 0 - 1
NoAddr == ""

EmptyMap == [k \in {} |-> 0]

\* Map.get(k) || 0
MapGetOr0(m, k) == IF k \in DOMAIN m THEN m[k] ELSE 0

\* Map.set(k, v)
MapSet(m, k, v) == [x \in (DOMAIN m) \cup {k} |-> IF x = k THEN v ELSE m[x]]

\* Set.add on an insertion-ordered Set
SetAdd(s, x) == IF \E i \in 1..Len(s) : s[i] = x THEN s ELSE Append(s, x)

RECURSIVE AddLowered(_, _, _)
\* xs.forEach(x => set.add(x.toLowerCase())), from index i on
AddLowered(set, xs, i) ==
    IF i > Len(xs) THEN set
    ELSE AddLowered(SetAdd(set, ToLowerCase(xs[i])), xs, i + 1)

RECURSIVE AddEdges(_, _, _)
\* for (const delegation of delegations) { add delegator; add delegate }
AddEdges(set, es, i) ==
    IF i > Len(es) THEN set
    ELSE AddEdges(SetAdd(SetAdd(set, ToLowerCase(es[i].delegator)),
                         ToLowerCase(es[i].delegate)), es, i + 1)

\* the accounts of interest, in insertion order
UniqueAccounts(inv, lo, es) ==
    AddEdges(AddLowered(AddLowered(<<>>, inv, 1), [i \in 1..Len(lo) |-> lo[i].owner], 1),
             es, 1)

RECURSIVE LockerToOwnerMap(_, _, _)
\* lockerToOwnerMap.set(locker.toLowerCase(), owner.toLowerCase()) for each resolved
\* pair; the Map is kept as the sequence of its entries in insertion order
LockerToOwnerMap(map, lo, i) ==
    IF i > Len(lo) THEN map
    ELSE LET k == ToLowerCase(lo[i].locker)
             v == ToLowerCase(lo[i].owner)
             e == [locker |-> k, owner |-> v]
         IN  LockerToOwnerMap(
                 IF \E j \in 1..Len(map) : map[j].locker = k
                 THEN [j \in 1..Len(map) |-> IF map[j].locker = k THEN e ELSE map[j]]
                 ELSE Append(map, e),
                 lo, i + 1)

\* variant: only the addresses the scoring engine returned a score for get an entry
GetVotingPowerBatch_ScoredOnly(addresses, sc) ==
    LET scored == SelectSeq(addresses, LAMBDA x : ToLowerCase(x) \in DOMAIN sc)
    IN  [i \in 1..Len(scored) |->
            [address |-> ToLowerCase(scored[i]), own |-> sc[ToLowerCase(scored[i])]]]

\* getVotingPowerBatch(addresses, false): one entry per input address, keyed by the
\* lowercased address; a missing score counts 0. sc holds, per address, the scores
\* of the non-delegation strategies added up
GetVotingPowerBatch(addresses, sc) ==
    [i \in 1..Len(addresses) |->
        LET a == ToLowerCase(addresses[i])
        IN  [address |-> a, own |-> IF a \in DOMAIN sc THEN sc[a] ELSE 0]]

\* ownVotingPowers.find(vp => vp.address === a): index of the first match, 0 if none
FindVp(vps, a) ==
    IF \E i \in 1..Len(vps) : vps[i].address = a
    THEN CHOOSE i \in 1..Len(vps) :
            vps[i].address = a /\ \A j \in 1..(i - 1) : vps[j].address # a
    ELSE 0

\* variant: an edge is counted only when the delegate is not yet in the map
AggregateEdge_Overwrite(acc, e, vps) ==
    LET delegator == ToLowerCase(e.delegator)
        delegate == ToLowerCase(e.delegate)
        k == FindVp(vps, delegator)
    IN  IF k = 0 THEN acc
        ELSE [vp |-> MapSet(acc.vp, delegate, vps[k].own),
              count |-> MapSet(acc.count, delegate, 1)]

\* one iteration of the delegated-voting-power loop
AggregateEdge(acc, e, vps) ==
    LET delegator == ToLowerCase(e.delegator)
        delegate == ToLowerCase(e.delegate)
        k == FindVp(vps, delegator)
    IN  IF k = 0 THEN acc
        ELSE [vp |-> MapSet(acc.vp, delegate, MapGetOr0(acc.vp, delegate) + vps[k].own),
              count |-> MapSet(acc.count, delegate, MapGetOr0(acc.count, delegate) + 1)]

RECURSIVE AggregateDelegations(_, _, _, _)
\* step 4: the loop over all delegation edges
AggregateDelegations(acc, es, i, vps) ==
    IF i > Len(es) THEN acc
    ELSE AggregateDelegations(AggregateEdge(acc, es[i], vps), es, i + 1, vps)

\* the first locker of the map owned by a, if any
LockerOf(map, a) ==
    IF \E j \in 1..Len(map) : map[j].owner = a
    THEN map[CHOOSE j \in 1..Len(map) :
                map[j].owner = a /\ \A h \in 1..(j - 1) : map[h].owner # a].locker
    ELSE NoAddr

\* variant: every address with an inbound edge gets the delegate fields
MemberOf_AnyInbound(vp, map, acc) ==
    LET isDelegate == vp.address \in DOMAIN acc.vp
    IN  [address |-> vp.address,
         ownVp |-> vp.own,
         locker |-> LockerOf(map, vp.address),
         delegatedVp |-> IF isDelegate THEN acc.vp[vp.address] ELSE NoValue,
         nrDelegators |-> IF isDelegate THEN MapGetOr0(acc.count, vp.address) ELSE NoValue,
         delegate |-> NoAddr]

\* step 5, first loop: one MemberData per entry of ownVotingPowers
MemberOf(vp, map, acc) ==
    LET dvp == MapGetOr0(acc.vp, vp.address)
        isDelegate == vp.address \in DOMAIN acc.vp /\ dvp # 0 /\ dvp > 0
    IN  [address |-> vp.address,
         ownVp |-> vp.own,
         locker |-> LockerOf(map, vp.address),
         delegatedVp |-> IF isDelegate THEN dvp ELSE NoValue,
         nrDelegators |-> IF isDelegate THEN MapGetOr0(acc.count, vp.address) ELSE NoValue,
         delegate |-> NoAddr]

RECURSIVE AddDelegateInfo_FirstWins(_, _, _)
\* variant: a delegator keeps the delegate of its first edge
AddDelegateInfo_FirstWins(ms, es, i) ==
    IF i > Len(es) THEN ms
    ELSE LET delegator == ToLowerCase(es[i].delegator)
             delegate == ToLowerCase(es[i].delegate)
         IN  AddDelegateInfo_FirstWins(
                 [j \in 1..Len(ms) |->
                     IF ms[j].address = delegator /\ ms[j].delegate = NoAddr
                     THEN [ms[j] EXCEPT !.delegate = delegate] ELSE ms[j]],
                 es, i + 1)

RECURSIVE AddDelegateInfo(_, _, _)
\* step 5, second loop: data[delegator].delegate = delegate, edge by edge
AddDelegateInfo(ms, es, i) ==
    IF i > Len(es) THEN ms
    ELSE LET delegator == ToLowerCase(es[i].delegator)
             delegate == ToLowerCase(es[i].delegate)
         IN  AddDelegateInfo(
                 [j \in 1..Len(ms) |->
                     IF ms[j].address = delegator
                     THEN [ms[j] EXCEPT !.delegate = delegate] ELSE ms[j]],
                 es, i + 1)

\* a.ownVp + (a.delegatedVp || 0)
Total(m) == m.ownVp + (IF m.delegatedVp = NoValue THEN 0 ELSE m.delegatedVp)

\* variant: the comparator looks at the own voting power only
SortKey_OwnOnly(m) == m.ownVp

\* the key the comparator of the final sort orders by
SortKey(m) == Total(m)

RECURSIVE InsertSorted(_, _)
\* stable insertion of m behind every entry whose key is not smaller
InsertSorted(sorted, m) ==
    IF sorted = <<>> THEN <<m>>
    ELSE IF SortKey(Head(sorted)) >= SortKey(m)
         THEN <<Head(sorted)>> \o InsertSorted(Tail(sorted), m)
         ELSE <<m>> \o sorted

RECURSIVE SortEntries(_, _, _)
\* Object.entries(data).sort((a, b) => bTotal - aTotal): a stable descending sort
SortEntries(sorted, ms, i) ==
    IF i > Len(ms) THEN sorted
    ELSE SortEntries(InsertSorted(sorted, ms[i]), ms, i + 1)

\* upstream data the aggregator may meet
Edges == [delegator : RawAddrs, delegate : RawAddrs]

\* what the scoring engine returns: a score for every address, or none for 0xd
ScoreMaps == [LowerAddrs -> VpValues] \cup [LowerAddrs \ {"0xd"} -> VpValues]

RECURSIVE SeqsUpTo(_, _)
SeqsUpTo(S, n) ==
    IF n = 0 THEN {<<>>}
    ELSE LET shorter == SeqsUpTo(S, n - 1)
         IN  shorter \cup {Append(s, x) : s \in {q \in shorter : Len(q) = n - 1}, x \in S}

\* variant: a failed read ends the resolution of its pool
ResolvePool_StopAtFailure(acc, pool, i) ==
    LET failed == {j \in 1..Len(pool) : pool[j].owner = NoAddr}
        last == IF failed = {} THEN Len(pool)
                ELSE (CHOOSE j \in failed : \A h \in failed : j <= h) - 1
    IN  acc \o SubSeq(pool, 1, last)

RECURSIVE ResolvePool(_, _, _)
\* the loop over the settled lockerOwner() reads of one pool: a read that failed
\* (owner NoAddr) goes to failedAddresses, any other adds its (locker, owner) pair
ResolvePool(acc, pool, i) ==
    IF i > Len(pool) THEN acc
    ELSE ResolvePool(IF pool[i].owner = NoAddr THEN acc ELSE Append(acc, pool[i]),
                     pool, i + 1)

RECURSIVE ResolveLockerOwners(_, _, _)
\* for (const poolId of uniquePools) { ... }
ResolveLockerOwners(acc, ps, i) ==
    IF i > Len(ps) THEN acc
    ELSE ResolveLockerOwners(ResolvePool(acc, ps[i], 1), ps, i + 1)

\* no further accounts, or two vesting receivers and two pools: the first with a
\* member that is no locker (its lockerOwner() read fails) and a locker, the second
\* with another locker of the same owner
OtherAccounts ==
    { [inv |-> <<>>, pools |-> <<>>],
      [inv |-> <<"0xD", "0xb">>,
       pools |-> << <<[locker |-> "0xlx", owner |-> NoAddr],
                      [locker |-> "0xl1", owner |-> "0xa"]>>,
                    <<[locker |-> "0xl2", owner |-> "0xa"]>> >>] }

AggIdle ==
    /\ aggPc = "idle"
    /\ investorsAndTeam = <<>>
    /\ pools = <<>>
    /\ lockerOwners = <<>>
    /\ delegations = <<>>
    /\ scores = [a \in LowerAddrs |-> 0]
    /\ ownVotingPowers = <<>>
    /\ delegatedVotingPower = EmptyMap
    /\ delegatorCount = EmptyMap
    /\ members = <<>>

AggInputs ==
    /\ aggPc = "inputs"
    /\ \E o \in OtherAccounts : investorsAndTeam = o.inv /\ pools = o.pools
    /\ lockerOwners = <<>>
    /\ delegations \in SeqsUpTo(Edges, MaxEdges)
    /\ scores \in ScoreMaps
    /\ ownVotingPowers = <<>>
    /\ delegatedVotingPower = EmptyMap
    /\ delegatorCount = EmptyMap
    /\ members = <<>>

\* steps 2 to 5 of fetchVotingMetrics() and the final sort, on the fetched inputs
VotingMetricsOf(inv, lo, es, sc) ==
    LET accounts == UniqueAccounts(inv, lo, es)
        vps == GetVotingPowerBatch(accounts, sc)
        acc == AggregateDelegations([vp |-> EmptyMap, count |-> EmptyMap], es, 1, vps)
        map == LockerToOwnerMap(<<>>, lo, 1)
        data0 == [i \in 1..Len(vps) |-> MemberOf(vps[i], map, acc)]
        data1 == AddDelegateInfo(data0, es, 1)
    IN  [vps |-> vps, acc |-> acc, members |-> SortEntries(<<>>, data1, 1)]

\* fetchVotingMetrics(), from the fetched inputs to its return statement
FetchVotingMetrics ==
    /\ aggPc = "inputs"
    /\ aggPc' = "done"
    /\ LET lo == ResolveLockerOwners(<<>>, pools, 1)
           r == VotingMetricsOf(investorsAndTeam, lo, delegations, scores)
       IN  /\ lockerOwners' = lo
           /\ ownVotingPowers' = r.vps
           /\ delegatedVotingPower' = r.acc.vp
           /\ delegatorCount' = r.acc.count
           /\ members' = r.members
    /\ UNCHANGED <<investorsAndTeam, pools, delegations, scores>>

----------------------------------------------------------------------------
(* Distribution metrics: fetchDistributionMetrics() *)

\* totalSupply of the metrics object: 1B SUP tokens
TOTAL_SUPPLY == 1000000000

\* BigInt(10 ** 18), the raw units of one whole token; the model counts raw
\* amounts in halves of a token, so that the truncating division is exercised
WeiPerToken == 2

\* Number(raw / BigInt(10 ** 18)): BigInt division truncates
ToTokens(raw) == raw \div WeiPerToken

\* a per-locker read that failed (NoValue): its .catch() handler returns BigInt(0)
ReadOrZero(r) == IF r = NoValue THEN 0 ELSE r

RECURSIVE SumAvailable(_, _)
\* totalReserveBalances += balances[j] over all lockers
SumAvailable(ls, i) ==
    IF i > Len(ls) THEN 0 ELSE ReadOrZero(ls[i].available) + SumAvailable(ls, i + 1)

RECURSIVE SumStaked(_, _)
\* totalStakedSup += stakedBalances[j] over all lockers
SumStaked(ls, i) ==
    IF i > Len(ls) THEN 0 ELSE ReadOrZero(ls[i].staked) + SumStaked(ls, i + 1)

\* batchSize = 100, scaled to the lockers of the model
LockerBatchSize == 2

\* variant: only the first batch of lockers is read
LockerBatches_FirstOnly(ls) ==
    IF Len(ls) = 0 THEN <<>>
    ELSE <<SubSeq(ls, 1, IF LockerBatchSize < Len(ls) THEN LockerBatchSize ELSE Len(ls))>>

\* for (i = 0; i < lockers.length; i += batchSize) lockers.slice(i, i + batchSize)
LockerBatches(ls) ==
    [k \in 1..((Len(ls) + LockerBatchSize - 1) \div LockerBatchSize) |->
        SubSeq(ls, (k - 1) * LockerBatchSize + 1,
               IF k * LockerBatchSize < Len(ls) THEN k * LockerBatchSize ELSE Len(ls))]

RECURSIVE SumBatches(_, _, _)
\* the totals after the batches from k on: each batch awaits all its reads, failed
\* ones included, and adds them to the running totals
SumBatches(totals, bs, k) ==
    IF k > Len(bs) THEN totals
    ELSE SumBatches([reserve |-> totals.reserve + SumAvailable(bs[k], 1),
                     staked |-> totals.staked + SumStaked(bs[k], 1)], bs, k + 1)

\* the requests of one refresh a network error may hit: none, a fixed-contract
\* read, a page of the vesting schedules, a page of the lockers
FailureKinds == {"none", "contractRead", "vestingPage", "lockersPage"}

\* getVestingSchedules(): an error of queryAllPages() is caught and [] returned
GetVestingSchedules(c) ==
    IF c.failing = "vestingPage" THEN <<>> ELSE c.vestingSchedules

RECURSIVE TotalVestingAmount_NoGuard(_, _, _)
\* variant: ended schedules are counted too
TotalVestingAmount_NoGuard(ss, i, t) ==
    IF i > Len(ss) THEN 0
    ELSE ss[i].flowRate * (ss[i].endDate - t) + TotalVestingAmount_NoGuard(ss, i + 1, t)

RECURSIVE TotalVestingAmount(_, _, _)
\* the loop over the treasury's flowing vesting schedules
TotalVestingAmount(ss, i, t) ==
    IF i > Len(ss) THEN 0
    ELSE (IF ss[i].endDate > t THEN ss[i].flowRate * (ss[i].endDate - t) ELSE 0)
         + TotalVestingAmount(ss, i + 1, t)

\* accountedFor: the categories subtracted from totalSupply
AccountedFor(m) ==
    m.reserveBalances + m.communityCharge + m.investorsTeamLocked + m.daoTreasury
    + m.foundationTreasury

\* the metrics object as it stands before "other" is assigned
CategoriesOf(c, t) ==
    LET totals == SumBatches([reserve |-> 0, staked |-> 0], LockerBatches(c.lockers), 1)
    IN
    [reserveBalances |-> IF Len(c.lockers) > 0 THEN ToTokens(totals.reserve) ELSE 0,
     stakedSup |-> IF Len(c.lockers) > 0 THEN ToTokens(totals.staked) ELSE 0,
     lpSup |-> 0,
     streamingOut |-> 0,
     communityCharge |-> ToTokens(c.communityChargeBalance),
     investorsTeamLocked |-> ToTokens(c.vestingTotalSupply),
     daoTreasury |-> ToTokens(c.daoTreasuryBalance)
                     + ToTokens(TotalVestingAmount(GetVestingSchedules(c), 1, t)),
     foundationTreasury |-> ToTokens(c.foundationTreasuryBalance),
     other |-> 0,
     totalSupply |-> TOTAL_SUPPLY]

\* the DistributionMetrics object fetchDistributionMetrics() returns
DistributionOf(c, t) ==
    LET m == CategoriesOf(c, t)
    IN  [m EXCEPT !.other = m.totalSupply - AccountedFor(m)]

\* initialData of distributionMetricsManager
InitialDistribution ==
    [reserveBalances |-> 0, stakedSup |-> 0, lpSup |-> 0, streamingOut |-> 0,
     communityCharge |-> 0, investorsTeamLocked |-> 0, daoTreasury |-> 0,
     foundationTreasury |-> 0, other |-> 0, totalSupply |-> TOTAL_SUPPLY]

\* raw amounts a balance read may return: nothing, one and a half tokens
RawAmounts == {0, 3}

\* what the two reads of one locker may return
LockerReads == [available : {NoValue, 1, 3}, staked : {NoValue, 0, 3}]

\* the treasury's flowing schedules (flow rates are positive): none, one that
\* ended, one with two seconds left, two with one and three seconds left, one that
\* ended followed by one with a second left
ScheduleLists ==
    { <<>>,
      <<[endDate |-> StartTime, flowRate |-> 1]>>,
      <<[endDate |-> StartTime + 2, flowRate |-> 1]>>,
      <<[endDate |-> StartTime + 1, flowRate |-> 1],
        [endDate |-> StartTime + 3, flowRate |-> 1]>>,
      <<[endDate |-> StartTime - 1, flowRate |-> 3],
        [endDate |-> StartTime + 1, flowRate |-> 3]>> }

DistIdle ==
    /\ distPc = "idle"
    /\ chain = [communityChargeBalance |-> 0, vestingTotalSupply |-> 0,
                daoTreasuryBalance |-> 0, vestingSchedules |-> <<>>,
                foundationTreasuryBalance |-> 0, lockers |-> <<>>, failing |-> "none"]
    /\ lockerBatches = <<>>
    /\ metrics = InitialDistribution

\* what the refresh meets: any balances and schedules with at most one locker and
\* any request failing, or any lockers with nothing else to count
DistInputs ==
    /\ distPc = "inputs"
    /\ \/ chain \in [communityChargeBalance : RawAmounts,
                     vestingTotalSupply : RawAmounts,
                     daoTreasuryBalance : RawAmounts,
                     vestingSchedules : ScheduleLists,
                     foundationTreasuryBalance : RawAmounts \cup {WeiPerToken * TOTAL_SUPPLY},
                     lockers : SeqsUpTo(LockerReads, 1),
                     failing : FailureKinds]
       \/ chain \in [communityChargeBalance : {0},
                     vestingTotalSupply : {0},
                     daoTreasuryBalance : {0},
                     vestingSchedules : {<<>>},
                     foundationTreasuryBalance : {0},
                     lockers : SeqsUpTo(LockerReads, MaxLockers),
                     failing : {"none"}]
    /\ lockerBatches = <<>>
    /\ metrics = InitialDistribution

\* fetchDistributionMetrics() runs to its return statement: no request met a
\* network error, or only the vesting schedules' page did
FetchDistributionMetrics ==
    /\ distPc = "inputs"
    /\ chain.failing \in {"none", "vestingPage"}
    /\ distPc' = "done"
    /\ lockerBatches' = LockerBatches(chain.lockers)
    /\ metrics' = DistributionOf(chain, now)
    /\ UNCHANGED chain

\* an awaited fixed-contract read or the lockers' queryAllPages() rejects: the
\* error is logged and rethrown, nothing is returned
FetchDistributionThrows ==
    /\ distPc = "inputs"
    /\ chain.failing \in {"contractRead", "lockersPage"}
    /\ distPc' = "failed"
    /\ UNCHANGED <<chain, lockerBatches, metrics>>

----------------------------------------------------------------------------
(* Query Facade: the exported accessors over the two managers' snapshots *)

\* isDelegate: null of the DaoMember
NullDelegate == [delegatedVotingPower |-> NoValue, nrDelegators |-> NoValue]

\* x || 0 for an optional number
OrZero(x) == IF x = NoValue THEN 0 ELSE x

\* getDaoMembersCount()
GetDaoMembersCount(snap) ==
    [daoMembersCount |-> Len(snap.data), lastUpdatedAt |-> snap.lastUpdatedAt]

RECURSIVE SumDelegatedVp(_, _)
\* Object.values(data).reduce((sum, member) => sum + (member.delegatedVp || 0), 0)
SumDelegatedVp(ms, i) ==
    IF i > Len(ms) THEN 0 ELSE OrZero(ms[i].delegatedVp) + SumDelegatedVp(ms, i + 1)

\* variant: the score of a delegate is its own voting power alone
DelegateScoreOf_OwnScore(m) ==
    [address |-> m.address,
     score |-> m.ownVp,
     delegatedScore |-> m.delegatedVp,
     nrDelegations |-> OrZero(m.nrDelegators)]

\* the entry of perDelegateScore made from one member
DelegateScoreOf(m) ==
    [address |-> m.address,
     score |-> m.ownVp + OrZero(m.delegatedVp),
     delegatedScore |-> m.delegatedVp,
     nrDelegations |-> OrZero(m.nrDelegators)]

\* getTotalDelegatedScore()
GetTotalDelegatedScore(snap) ==
    LET delegates == SelectSeq(snap.data,
                               LAMBDA m : OrZero(m.delegatedVp) # 0 /\ m.delegatedVp > 0)
    IN  [totalDelegatedScore |-> SumDelegatedVp(snap.data, 1),
         perDelegateScore |-> [i \in 1..Len(delegates) |-> DelegateScoreOf(delegates[i])],
         lastUpdatedAt |-> snap.lastUpdatedAt]

\* getDaoMembers(): one DaoMember per entry, in the entries' order
GetDaoMembers(snap) ==
    [i \in 1..Len(snap.data) |->
        LET d == snap.data[i]
        IN  [address |-> d.address,
             locker |-> d.locker,
             votingPower |-> d.ownVp,
             hasDelegate |-> d.delegate,
             isDelegate |-> IF OrZero(d.delegatedVp) # 0
                            THEN [delegatedVotingPower |-> d.delegatedVp,
                                  nrDelegators |-> OrZero(d.nrDelegators)]
                            ELSE NullDelegate]]

\* variant: the threshold applies to delegates as to everybody else
PassesFilter_MinOnly(member, minVotingPower, includeAllDelegates) ==
    member.votingPower >= minVotingPower

\* the predicate of daoMembers.filter(...)
PassesFilter(member, minVotingPower, includeAllDelegates) ==
    IF includeAllDelegates /\ member.isDelegate # NullDelegate
    THEN TRUE
    ELSE member.votingPower >= minVotingPower

\* variant: the members that pass are returned by ascending own voting power
GetDaoMembersWithFilters_Resorted(snap, minVotingPower, includeAllDelegates) ==
    LET daoMembers == GetDaoMembers(snap)
        passing == SelectSeq(daoMembers,
                       LAMBDA m : PassesFilter(m, minVotingPower, includeAllDelegates))
        rank(i) == Cardinality({j \in 1..Len(passing) :
                       \/ passing[j].votingPower < passing[i].votingPower
                       \/ passing[j].votingPower = passing[i].votingPower /\ j <= i})
    IN  [totalMembersCount |-> Len(daoMembers),
         daoMembers |-> [k \in 1..Len(passing) |->
                            passing[CHOOSE i \in 1..Len(passing) : rank(i) = k]],
         lastUpdatedAt |-> snap.lastUpdatedAt]

\* getDaoMembersWithFilters(minVotingPower, includeAllDelegates)
GetDaoMembersWithFilters(snap, minVotingPower, includeAllDelegates) ==
    LET daoMembers == GetDaoMembers(snap)
    IN  [totalMembersCount |-> Len(daoMembers),
         daoMembers |-> SelectSeq(daoMembers,
                           LAMBDA m : PassesFilter(m, minVotingPower, includeAllDelegates)),
         lastUpdatedAt |-> snap.lastUpdatedAt]

\* getDistributionMetrics()
GetDistributionMetrics(snap) ==
    [metrics |-> snap.data, lastUpdatedAt |-> snap.lastUpdatedAt]

\* getTotalScore() of the unified scores: data.totalScore.totalScore of the snapshot
GetTotalScore(snap) ==
    [totalScore |-> snap.data.totalScore, lastUpdatedAt |-> snap.lastUpdatedAt]

\* the snapshot a manager holds before its first commit
InitialSnapshot(initialData) == [data |-> initialData, lastUpdatedAt |-> 0]

\* `{} as TotalScoreData`, the total score of unifiedScoresManager's initialData:
\* an object none of whose fields is defined
EmptyTotalScore ==
    [totalScore |-> NoValue, poolCount |-> NoValue, additionalTotalScore |-> NoValue]

\* total score snapshots the unified scores manager may hold: the initial one, or
\* the outcome of a refresh that found one pool
ScoreSnapshots ==
    { InitialSnapshot(EmptyTotalScore),
      [data |-> [totalScore |-> 5, poolCount |-> 1, additionalTotalScore |-> 0],
       lastUpdatedAt |-> StartTime] }

\* snapshots the voting manager may hold: the initial one, or the outcome of a refresh
VotingSnapshots ==
    {InitialSnapshot(<<>>)} \cup
    { [data |-> VotingMetricsOf(o.inv, ResolveLockerOwners(<<>>, o.pools, 1), es, sc).members,
       lastUpdatedAt |-> StartTime] :
        o \in OtherAccounts,
        es \in SeqsUpTo([delegator : LowerAddrs, delegate : LowerAddrs], MaxEdges),
        sc \in [LowerAddrs -> VpValues] }

\* snapshots the distribution manager may hold: the initial one, or the outcome of
\* a refresh that found one locker
DistSnapshots ==
    { InitialSnapshot(InitialDistribution),
      [data |-> DistributionOf([communityChargeBalance |-> 3, vestingTotalSupply |-> 3,
                                daoTreasuryBalance |-> 3, vestingSchedules |-> <<>>,
                                foundationTreasuryBalance |-> 3, failing |-> "none",
                                lockers |-> <<[available |-> 3, staked |-> 3]>>],
                               StartTime),
       lastUpdatedAt |-> StartTime] }

\* arguments a caller may pass as minVotingPower
MinVpValues == {0, 50, 100}

NoRequest == [fn |-> "none", minVotingPower |-> 0, includeAllDelegates |-> FALSE]

FacadeIdle ==
    /\ votingData = InitialSnapshot(<<>>)
    /\ distData = InitialSnapshot(InitialDistribution)
    /\ scoreData = InitialSnapshot(EmptyTotalScore)
    /\ request = [NoRequest EXCEPT !.fn = "idle"]
    /\ response = <<>>

\* the distribution manager is the second to be constructed and refreshes faster
\* (chain reads only): a refreshed voting snapshot is paired with a refreshed
\* distribution snapshot; members and total score are refreshed together
FacadeInputs ==
    /\ votingData \in VotingSnapshots
    /\ distData \in DistSnapshots
    /\ votingData = InitialSnapshot(<<>>) \/ distData # InitialSnapshot(InitialDistribution)
    /\ scoreData \in ScoreSnapshots
    /\ votingData = InitialSnapshot(<<>>) <=> scoreData = InitialSnapshot(EmptyTotalScore)
    /\ request = NoRequest
    /\ response = <<>>

\* a caller invokes getDaoMembersCount()
CallGetDaoMembersCount ==
    /\ request.fn # "idle"
    /\ request' = [NoRequest EXCEPT !.fn = "getDaoMembersCount"]
    /\ response' = GetDaoMembersCount(votingData)
    /\ UNCHANGED <<votingData, distData, scoreData>>

\* a caller invokes getTotalDelegatedScore()
CallGetTotalDelegatedScore ==
    /\ request.fn # "idle"
    /\ request' = [NoRequest EXCEPT !.fn = "getTotalDelegatedScore"]
    /\ response' = GetTotalDelegatedScore(votingData)
    /\ UNCHANGED <<votingData, distData, scoreData>>

\* a caller invokes getDaoMembersWithFilters(minVotingPower, includeAllDelegates)
CallGetDaoMembersWithFilters(minVotingPower, includeAllDelegates) ==
    /\ request.fn # "idle"
    /\ request' = [fn |-> "getDaoMembersWithFilters", minVotingPower |-> minVotingPower,
                   includeAllDelegates |-> includeAllDelegates]
    /\ response' = GetDaoMembersWithFilters(votingData, minVotingPower, includeAllDelegates)
    /\ UNCHANGED <<votingData, distData, scoreData>>

\* a caller invokes getTotalScore()
CallGetTotalScore ==
    /\ request.fn # "idle"
    /\ request' = [NoRequest EXCEPT !.fn = "getTotalScore"]
    /\ response' = GetTotalScore(scoreData)
    /\ UNCHANGED <<votingData, distData, scoreData>>

\* a caller invokes getDistributionMetrics()
CallGetDistributionMetrics ==
    /\ request.fn # "idle"
    /\ request' = [NoRequest EXCEPT !.fn = "getDistributionMetrics"]
    /\ response' = GetDistributionMetrics(distData)
    /\ UNCHANGED <<votingData, distData, scoreData>>

----------------------------------------------------------------------------
(* Paginated fetcher: queryAllPages() *)

\* pageSize (1000 in the code) and the `first:` limit of every page query; the
\* model pages by two
PageSize == 2

\* let lastId = ""
EmptyCursor == 0

\* the item of id k as the endpoint returns it, and what itemFn makes of it
RawItem(k) == [id |-> k, payload |-> 10 * k]
ItemFn(item) == item.payload

\* variant: the endpoint answers with the items of id_gte cursor
PageOf_Inclusive(ids, cursor) ==
    LET later == SelectSeq(ids, LAMBDA k : k >= cursor)
    IN  [i \in 1..(IF Len(later) < PageSize THEN Len(later) ELSE PageSize) |->
            RawItem(later[i])]

\* the endpoint's answer to queryFn(cursor): the first PageSize items with
\* id_gt cursor, by ascending id
PageOf(ids, cursor) ==
    LET later == SelectSeq(ids, LAMBDA k : k > cursor)
    IN  [i \in 1..(IF Len(later) < PageSize THEN Len(later) ELSE PageSize) |->
            RawItem(later[i])]

\* variant: the cursor moves to the first item of the page
NextCursor_First(newItems) == newItems[1].id

\* lastId = newItems[newItems.length - 1].id
NextCursor(newItems) == newItems[Len(newItems)].id

\* variant: query-level errors are thrown to the caller
OnErrors_Throw(pc) == "threw"

\* if (response.data.errors) { console.error(...); break; } ... return items
OnErrors(pc) == "returned"

RECURSIVE AscendingSeq(_)
\* the elements of a set of ids by ascending id
AscendingSeq(S) ==
    IF S = {} THEN <<>>
    ELSE LET m == CHOOSE m \in S : \A x \in S : m <= x
         IN  <<m>> \o AscendingSeq(S \ {m})

PagesIdle ==
    /\ pagePc = "idle"
    /\ upstream = <<>>
    /\ stopEarly = FALSE
    /\ lastId = EmptyCursor
    /\ items = <<>>
    /\ pageLog = <<>>

\* queryAllPages() has been called: its locals are initialised, nothing requested yet
PagesInputs ==
    /\ pagePc = "running"
    /\ upstream \in {AscendingSeq(S) : S \in SUBSET (1..MaxId)}
    /\ stopEarly \in BOOLEAN
    /\ lastId = EmptyCursor
    /\ items = <<>>
    /\ pageLog = <<>>

\* one turn of the loop whose response carries no errors
QueryPage ==
    /\ pagePc = "running"
    /\ LET newItems == PageOf(upstream, lastId)
       IN  /\ pageLog' = Append(pageLog, [cursor |-> lastId, kind |-> "items",
                                          ids |-> [i \in 1..Len(newItems) |-> newItems[i].id]])
           /\ items' = items \o [i \in 1..Len(newItems) |-> ItemFn(newItems[i])]
           /\ IF Len(newItems) < PageSize
              THEN pagePc' = "returned" /\ lastId' = lastId
              ELSE /\ lastId' = NextCursor(newItems)
                   /\ pagePc' = IF stopEarly THEN "returned" ELSE "running"
    /\ UNCHANGED <<upstream, stopEarly>>

\* one turn of the loop whose response carries query-level errors
QueryPageErrors ==
    /\ pagePc = "running"
    /\ pageLog' = Append(pageLog, [cursor |-> lastId, kind |-> "errors", ids |-> <<>>])
    /\ pagePc' = OnErrors(pagePc)
    /\ UNCHANGED <<upstream, stopEarly, lastId, items>>

\* one turn of the loop whose axios.post() rejects: queryAllPages() rejects
QueryPageThrows ==
    /\ pagePc = "running"
    /\ pageLog' = Append(pageLog, [cursor |-> lastId, kind |-> "threw", ids |-> <<>>])
    /\ pagePc' = "threw"
    /\ UNCHANGED <<upstream, stopEarly, lastId, items>>

----------------------------------------------------------------------------
(* Space configuration cache: getSpaceConfig() *)

\* spaceConfigExpiration (24 * 60 * 60 seconds in the code); two seconds in the model
SpaceConfigExpiration == 2

\* cachedSpaceConfig === undefined
NoConfig == [config |-> 0, lastUpdatedAt |-> 0]

\* the configurations the hub may answer with
HubConfigs == {1, 2}

\* variant: a config of exactly the expiration age still counts as fresh
IsFresh_Inclusive(cache, t) ==
    cache # NoConfig /\ t - cache.lastUpdatedAt <= SpaceConfigExpiration

\* cachedSpaceConfig && (now - cachedSpaceConfig.lastUpdatedAt) < spaceConfigExpiration
IsFresh(cache, t) ==
    cache # NoConfig /\ t - cache.lastUpdatedAt < SpaceConfigExpiration

\* variant: the error is rethrown whether or not a config is cached
OnFetchFailure_Throw(cache) == [op |-> "throw", returned |-> NoConfig]

\* the catch block: the cached config if there is one, else rethrow
OnFetchFailure(cache) ==
    IF cache # NoConfig
    THEN [op |-> "fallback", returned |-> cache]
    ELSE [op |-> "throw", returned |-> NoConfig]

CfgIdle ==
    /\ cachedSpaceConfig = NoConfig
    /\ cfgNow = 0
    /\ cfgCalls = {}
    /\ cfgLast = [op |-> "idle", now |-> 0, prior |-> NoConfig, returned |-> NoConfig]

\* the module has been loaded: nothing cached, no call made yet
CfgInputs ==
    /\ cachedSpaceConfig = NoConfig
    /\ cfgNow = 0
    /\ cfgCalls = {}
    /\ cfgLast = [op |-> "none", now |-> 0, prior |-> NoConfig, returned |-> NoConfig]

\* getSpaceConfig() is called: it returns the fresh cached config, or posts the
\* query to the hub and awaits the answer
CallGetSpaceConfig ==
    /\ cfgLast.op # "idle"
    /\ IF IsFresh(cachedSpaceConfig, cfgNow)
       THEN /\ cfgLast' = [op |-> "hit", now |-> cfgNow, prior |-> cachedSpaceConfig,
                           returned |-> cachedSpaceConfig]
            /\ cfgCalls' = cfgCalls
       ELSE /\ Cardinality(cfgCalls \cup {cfgNow}) <= MaxCalls
            /\ cfgLast' = [op |-> "send", now |-> cfgNow, prior |-> cachedSpaceConfig,
                           returned |-> NoConfig]
            /\ cfgCalls' = cfgCalls \cup {cfgNow}
    /\ UNCHANGED <<cachedSpaceConfig, cfgNow>>

\* the hub answers the call that began at t with the space's configuration c
FetchSucceeds(t, c) ==
    /\ t \in cfgCalls
    /\ cachedSpaceConfig' = [config |-> c, lastUpdatedAt |-> t]
    /\ cfgCalls' = cfgCalls \ {t}
    /\ cfgLast' = [op |-> "ok", now |-> t, prior |-> cachedSpaceConfig,
                   returned |-> cachedSpaceConfig']
    /\ UNCHANGED cfgNow

\* the request of the call that began at t fails, or the hub knows no such space
FetchFails(t) ==
    /\ t \in cfgCalls
    /\ cfgCalls' = cfgCalls \ {t}
    /\ LET r == OnFetchFailure(cachedSpaceConfig)
       IN  cfgLast' = [op |-> r.op, now |-> t, prior |-> cachedSpaceConfig,
                       returned |-> r.returned]
    /\ UNCHANGED <<cachedSpaceConfig, cfgNow>>

\* one second passes
CfgAdvance ==
    /\ cfgLast.op # "idle"
    /\ cfgNow < MaxCfgElapsed
    /\ cfgNow' = cfgNow + 1
    /\ UNCHANGED <<cachedSpaceConfig, cfgCalls, cfgLast>>

----------------------------------------------------------------------------
(* Batched scoring: getVotingPowerBatch() *)

\* spaceConfig.strategies, by name: the production list, lists with one or three
\* strategies besides "delegation", and one with four
StrategyLists ==
    { <<"fountainhead", "delegation", "vsup">>,
      <<"delegation", "fountainhead">>,
      <<"fountainhead", "vsup", "extra", "delegation">>,
      <<"fountainhead", "delegation", "vsup", "extra", "extra2">> }

\* the scores the engine holds, per strategy and lowercased address; an address
\* without a score is no key of the strategy's object
ScoreTables ==
    { [s \in {"fountainhead", "delegation", "vsup", "extra", "extra2"} |->
          CASE s = "fountainhead" -> [a \in {"0xa", "0xb"} |-> IF a = "0xa" THEN 50 ELSE 0]
            [] s = "delegation" -> [a \in LowerAddrs |-> 100]
            [] s = "vsup" -> [a \in {"0xa", "0xd"} |-> IF a = "0xa" THEN 50 ELSE 100]
            [] s = "extra" -> [a \in {"0xa"} |-> 50]
            [] OTHER -> EmptyMap],
      [s \in {"fountainhead", "delegation", "vsup", "extra", "extra2"} |->
          CASE s = "fountainhead" -> [a \in {"0xb"} |-> 100]
            [] s = "extra" -> [a \in {"0xd"} |-> 50]
            [] OTHER -> EmptyMap] }

\* includeDelegations ? strategies : strategies.filter(s => s.name !== "delegation")
FilterStrategies(strategies, includeDelegations) ==
    IF includeDelegations THEN strategies
    ELSE SelectSeq(strategies, LAMBDA s : s # "delegation")

\* variant: only full chunks are pushed
ChunksOf_FullOnly(addresses, size) ==
    IF addresses = <<>> THEN <<>>
    ELSE [k \in 1..(Len(addresses) \div size) |->
            SubSeq(addresses, (k - 1) * size + 1, k * size)]

\* for (i = 0; i < addresses.length; i += size) chunks.push(addresses.slice(i, i + size)),
\* for a size that makes i advance; with no address the loop body never runs
ChunksOf(addresses, size) ==
    IF addresses = <<>> THEN <<>>
    ELSE [k \in 1..((Len(addresses) + size - 1) \div size) |->
            SubSeq(addresses, (k - 1) * size + 1,
                   IF k * size < Len(addresses) THEN k * size ELSE Len(addresses))]

\* getScoresDirect(space, strategies, network, provider, chunk, 'latest'): one
\* object per strategy, holding the scores of the addresses of the chunk
GetScoresDirect(strategies, chunk, table) ==
    [k \in 1..Len(strategies) |->
        LET asked == {ToLowerCase(chunk[i]) : i \in 1..Len(chunk)}
            held == table[strategies[k]]
        IN  [a \in asked \cap DOMAIN held |-> held[a]]]

\* Object.assign(target, source)
ObjectAssign(target, source) ==
    [x \in (DOMAIN target) \cup (DOMAIN source) |->
        IF x \in DOMAIN source THEN source[x] ELSE target[x]]

\* chunkScores.forEach((strategyScores, k) => Object.assign(allScores[k], strategyScores))
MergeScores(all, chunkScores) ==
    [k \in 1..Len(all) |->
        IF k <= Len(chunkScores) THEN ObjectAssign(all[k], chunkScores[k]) ELSE all[k]]

\* addresses.map(address => ({address, own, delegated})) on the merged scores
BatchResultOf(addresses, all, includeDelegations) ==
    LET scoresFountainhead == all[1]
        scoresDelegation == IF includeDelegations THEN all[2] ELSE EmptyMap
        scoresVsup == IF includeDelegations THEN all[3] ELSE all[2]
    IN  [i \in 1..Len(addresses) |->
            LET addressLower == ToLowerCase(addresses[i])
            IN  [address |-> addressLower,
                 own |-> MapGetOr0(scoresFountainhead, addressLower)
                         + MapGetOr0(scoresVsup, addressLower),
                 delegated |-> IF addressLower \in DOMAIN scoresDelegation
                               THEN scoresDelegation[addressLower] ELSE NoValue]]

BatchIdle ==
    /\ batchPc = "idle"
    /\ batchIn = [addresses |-> <<>>, includeDelegations |-> FALSE, size |-> 1,
                  strategies |-> <<>>, table |-> EmptyMap]
    /\ sent = <<>>
    /\ chunks = <<>>
    /\ chunkI = 1
    /\ allScores = <<EmptyMap, EmptyMap, EmptyMap>>
    /\ scoreCalls = <<>>
    /\ batchResult = <<>>

\* getVotingPowerBatch(addresses, includeDelegations) was called and awaits
\* getSpaceConfig()
BatchInputs ==
    /\ batchPc = "config"
    /\ batchIn \in [addresses : SeqsUpTo({"0xa", "0xb", "0xD"}, MaxAddrs),
                     includeDelegations : BOOLEAN,
                     size : 0..MaxChunk,
                     strategies : StrategyLists,
                     table : ScoreTables]
    /\ sent = <<>>
    /\ chunks = <<>>
    /\ chunkI = 1
    /\ allScores = <<EmptyMap, EmptyMap, EmptyMap>>
    /\ scoreCalls = <<>>
    /\ batchResult = <<>>

\* getSpaceConfig() resolved and config.vpCalcChunkSize is 0 although there are
\* addresses: the strategies are filtered, then the chunk loop pushes
\* addresses.slice(0, 0) and adds 0 to i, again and again, without ever yielding
\* (followed here until the chunks outnumber the addresses)
ChunkLoopSpins ==
    /\ batchPc \in {"config", "chunking"}
    /\ batchIn.size = 0 /\ batchIn.addresses # <<>>
    /\ Len(chunks) <= Len(batchIn.addresses)
    /\ sent' = FilterStrategies(batchIn.strategies, batchIn.includeDelegations)
    /\ chunks' = Append(chunks, SubSeq(batchIn.addresses, 1, batchIn.size))
    /\ batchPc' = "chunking"
    /\ UNCHANGED <<batchIn, chunkI, allScores, scoreCalls, batchResult>>

\* getSpaceConfig() resolved: the strategies are filtered and the chunks built; with
\* no address to score the result is returned at once
GotSpaceConfig ==
    /\ batchPc = "config"
    /\ batchIn.size > 0 \/ batchIn.addresses = <<>>
    /\ sent' = FilterStrategies(batchIn.strategies, batchIn.includeDelegations)
    /\ chunks' = ChunksOf(batchIn.addresses, batchIn.size)
    /\ batchPc' = IF chunks' = <<>> THEN "returned" ELSE "scoring"
    /\ UNCHANGED <<batchIn, chunkI, allScores, scoreCalls, batchResult>>

\* one iteration of the loop over the chunks: getScoresDirect() resolved and its
\* scores are merged; a fourth strategy object has no target in allScores and the
\* merge throws; after the last chunk the result is mapped and returned
ScoreChunk ==
    /\ batchPc = "scoring"
    /\ LET chunk == chunks[chunkI]
           chunkScores == GetScoresDirect(sent, chunk, batchIn.table)
           merged == MergeScores(allScores, chunkScores)
       IN  /\ scoreCalls' = Append(scoreCalls, [strategies |-> sent, chunk |-> chunk])
           /\ IF Len(chunkScores) > Len(allScores)
              THEN /\ batchPc' = "threw"
                   /\ UNCHANGED <<chunkI, allScores, batchResult>>
              ELSE /\ allScores' = merged
                   /\ chunkI' = chunkI + 1
                   /\ IF chunkI = Len(chunks)
                      THEN /\ batchPc' = "returned"
                           /\ batchResult' = BatchResultOf(batchIn.addresses, merged,
                                                           batchIn.includeDelegations)
                      ELSE /\ batchPc' = "scoring"
                           /\ UNCHANGED batchResult
    /\ UNCHANGED <<batchIn, sent, chunks>>

\* getSpaceConfig() or getScoresDirect() rejected: getVotingPowerBatch() rejects
BatchRejects ==
    /\ batchPc \in {"config", "scoring"}
    /\ batchPc' = "threw"
    /\ UNCHANGED <<batchIn, sent, chunks, chunkI, allScores, scoreCalls, batchResult>>

----------------------------------------------------------------------------
(* Pool discovery: step 1 of fetchVotingMetrics() *)

\* first: 1000 of the flowDistributionUpdatedEvents query, scaled to the events of
\* the model
EventsFirst == 2

RECURSIVE UniquePoolsOf(_, _, _)
\* for (const event of events) uniquePools.add(event.pool.id)
UniquePoolsOf(set, events, i) ==
    IF i > Len(events) THEN set
    ELSE UniquePoolsOf(SetAdd(set, events[i]), events, i + 1)

DiscIdle ==
    /\ discPc = "idle"
    /\ poolEvents = <<>>
    /\ uniquePools = <<>>

\* the refresh has sent the one discovery query
DiscInputs ==
    /\ discPc = "query"
    /\ poolEvents \in SeqsUpTo({"p1", "p2", "p3"}, MaxEvents)
    /\ uniquePools = <<>>

\* the subgraph answers with the first EventsFirst events it holds; their pool ids
\* are collected
DiscoverPools ==
    /\ discPc = "query"
    /\ discPc' = "done"
    /\ LET events == SubSeq(poolEvents, 1,
                            IF Len(poolEvents) < EventsFirst THEN Len(poolEvents)
                            ELSE EventsFirst)
       IN  uniquePools' = UniquePoolsOf(<<>>, events, 1)
    /\ UNCHANGED poolEvents

\* axios.post rejects: fetchVotingMetrics() logs and rethrows
DiscoverThrows ==
    /\ discPc = "query"
    /\ discPc' = "threw"
    /\ UNCHANGED <<poolEvents, uniquePools>>

----------------------------------------------------------------------------
(* The unified-scores manager: MetricManager<UnifiedScores> and fetchUnifiedScores() *)

\* FILE_SCHEMA_VERSION of the unified-scores code
SCORES_SCHEMA_VERSION == 4

\* the initialData handed to the constructor
InitialScores == [schemaVersion |-> SCORES_SCHEMA_VERSION, lastUpdatedAt |-> 0, data |-> InitialData]

\* fetchUnifiedScores(): the value returned, stamped with the time the fetch began
FetchUnifiedScoresResult(t, d) ==
    [schemaVersion |-> SCORES_SCHEMA_VERSION, lastUpdatedAt |-> t, data |-> d]

\* saveToFile(): JSON.stringify(this.state.data); a write error is caught and logged
UsSaveToFile(st, f, written) ==
    IF written THEN [kind |-> "json", content |-> st.data] ELSE f

\* loadFromFile(): the parsed file becomes state.data, its lastUpdatedAt field
\* becomes state.lastUpdatedAt
UsLoadFromFile(f, st) ==
    IF f.kind = "json" /\ f.content.schemaVersion = SCORES_SCHEMA_VERSION
    THEN [data |-> f.content, lastUpdatedAt |-> f.content.lastUpdatedAt]
    ELSE st

\* update() with the flag clear: isUpdating is set and fetchUnifiedScores() runs up
\* to its first await (an update() that meets the flag set returns and changes nothing)
UsUpdate ==
    /\ sysPart = "scores"
    /\ usPc = "ready"
    /\ usPc' = "fetching"
    /\ usFetchAt' = sysNow
    /\ UNCHANGED <<sysPart, sysNow, usState, usFile, usRestarted, usBefore, usAfter, pairVars, oldVars, totalVars, taskVars>>

\* fetchUnifiedScores() settles: on success state.data and state.lastUpdatedAt are
\* assigned and saveToFile() runs; on failure the catch block logs; finally
UsSettle(d, outcome) ==
    /\ sysPart = "scores"
    /\ usPc = "fetching"
    /\ usPc' = "ready"
    /\ usFetchAt' = 0
    /\ IF outcome = "rejected"
       THEN UNCHANGED <<usState, usFile>>
       ELSE /\ usState' = [data |-> FetchUnifiedScoresResult(usFetchAt, d),
                           lastUpdatedAt |-> sysNow]
            /\ usFile' = UsSaveToFile(usState', usFile, outcome = "saved")
    /\ UNCHANGED <<sysPart, sysNow, usRestarted, usBefore, usAfter, pairVars, oldVars, totalVars, taskVars>>

\* getData() is read, the process exits and starts again with a positive interval:
\* the constructor sets the initial state, startPeriodicUpdates() calls
\* loadFromFile(), and getData() is read again. Whether startPeriodicUpdates()
\* also starts a refresh is left to UsUpdate.
UsRestart ==
    /\ sysPart = "scores"
    /\ ~usRestarted
    /\ usRestarted' = TRUE
    /\ usBefore' = usState
    /\ usState' = UsLoadFromFile(usFile, [data |-> InitialScores, lastUpdatedAt |-> 0])
    /\ usAfter' = usState'
    /\ usPc' = "ready"
    /\ usFetchAt' = 0
    /\ UNCHANGED <<sysPart, sysNow, usFile, pairVars, oldVars, totalVars, taskVars>>

----------------------------------------------------------------------------
(* Two managers in one process: votingMetricsManager, distributionMetricsManager *)

Managers == {"voting", "distribution"}

\* variant: one flag shared by all managers
InFlight_Shared(ms, m) == \E k \in DOMAIN ms : ms[k].isUpdating

\* `this.isUpdating` as update() of manager m reads it
InFlight(ms, m) == ms[m].isUpdating

\* manager m: update(), up to `await this.updateFn()`
PairUpdate(m) ==
    /\ sysPart = "pair"
    /\ LET st == UpdateStart(InFlight(mgrs, m), mgrs[m].pending)
       IN  mgrs' = [mgrs EXCEPT ![m].isUpdating = st.isUpdating,
                                ![m].pending = st.pending,
                                ![m].result = st.result]
    /\ pairOp' = [kind |-> "update", mgr |-> m]
    /\ UNCHANGED <<sysPart, sysNow, usVars, oldVars, totalVars, taskVars>>

\* manager m: its updateFn() settles; commit and saveToFile(), or catch; finally
PairSettle(m, d, outcome) ==
    /\ sysPart = "pair"
    /\ mgrs[m].pending > 0
    /\ IF outcome = "rejected"
       THEN LET ct == UpdateCatch(mgrs[m].data, mgrs[m].file)
            IN  mgrs' = [mgrs EXCEPT ![m].isUpdating = UpdateFinally(@),
                                     ![m].pending = @ - 1,
                                     ![m].data = ct.data,
                                     ![m].file = ct.file,
                                     ![m].result = "failed"]
       ELSE LET snap == NewSnapshot(mgrs[m].data, d, sysNow)
                sv == SaveToFile(snap, mgrs[m].file, outcome)
            IN  mgrs' = [mgrs EXCEPT ![m].isUpdating = UpdateFinally(@),
                                     ![m].pending = @ - 1,
                                     ![m].data = snap,
                                     ![m].file = sv.file,
                                     ![m].result = "committed"]
    /\ pairOp' = [kind |-> "settle", mgr |-> m]
    /\ UNCHANGED <<sysPart, sysNow, usVars, oldVars, totalVars, taskVars>>

----------------------------------------------------------------------------
(* The interval-driven MetricManager: update(isBootstrapping), setupPeriodicUpdates() *)

\* setupPeriodicUpdates(): update(true) runs up to its first await, that is,
\* loadFromFile(), the age test and, unless the loaded data is fresh, the call of
\* updateFn(); then setInterval() arms the timer
SetupPeriodicUpdates(f, interval) ==
    /\ sysPart = "interval"
    /\ oldPc = "new"
    /\ oldPc' = "running"
    /\ LET ld == LoadFromFile(f, oldState)
       IN  /\ oldState' = ld.data
           /\ oldInFlight' = IF ld.loaded /\ sysNow - ld.data.lastUpdatedAt < interval
                             THEN oldInFlight
                             ELSE oldInFlight + 1
    /\ oldFile' = f
    /\ oldTimer' = [intervalSec |-> interval, nextFire |-> sysNow + interval]
    /\ UNCHANGED <<sysPart, sysNow, usVars, pairVars, totalVars, taskVars>>

\* the setInterval callback: update(false) calls updateFn() at once
OldTick ==
    /\ sysPart = "interval"
    /\ oldPc = "running"
    /\ sysNow >= oldTimer.nextFire
    /\ oldInFlight' = oldInFlight + 1
    /\ oldTimer' = [oldTimer EXCEPT !.nextFire = @ + oldTimer.intervalSec]
    /\ UNCHANGED <<sysPart, sysNow, usVars, pairVars, totalVars, taskVars, oldPc, oldState, oldFile>>

\* one updateFn() settles: state.data and state.lastUpdatedAt are assigned and
\* saveToFile() runs, or the catch block logs the error
OldSettle(d, outcome) ==
    /\ sysPart = "interval"
    /\ oldInFlight > 0
    /\ oldInFlight' = oldInFlight - 1
    /\ IF outcome = "rejected"
       THEN UNCHANGED <<oldState, oldFile>>
       ELSE /\ oldState' = NewSnapshot(oldState, d, sysNow)
            /\ oldFile' = SaveToFile(oldState', oldFile, outcome).file
    /\ UNCHANGED <<sysPart, sysNow, usVars, pairVars, totalVars, taskVars, oldPc, oldTimer>>

----------------------------------------------------------------------------
(* calculateTotalScore() *)

\* the pool record an event carries: id, flowRate, totalAmountDistributedUntilUpdatedAt
\* (amounts in units of which WeiPerToken make a token) and updatedAtTimestamp;
\* a slow pool that has distributed nothing yet or a fast one that has
PoolRecords ==
    {r \in [id : {"p1", "p2"}, flowRate : {1, 2}, amount : {0, 1}, updatedAt : {0, 2}] :
        r.flowRate = r.amount + 1}

\* variant: the first event of a pool is kept whatever comes later
Replaces_Never(held, pool) == FALSE

\* parseInt(pool.updatedAtTimestamp) > parseInt(uniquePools.get(poolId).updatedAtTimestamp)
Replaces(held, pool) == pool.updatedAt > held.updatedAt

\* the loop over the events: uniquePools as the sequence of its values in insertion
\* order (Map.set on a key already present keeps the key's position)
RECURSIVE MostRecentPools(_, _, _)
MostRecentPools(unique, events, i) ==
    IF i > Len(events) THEN unique
    ELSE LET pool == events[i]
             at == {k \in 1..Len(unique) : unique[k].id = pool.id}
         IN  IF at = {}
             THEN MostRecentPools(Append(unique, pool), events, i + 1)
             ELSE LET k == CHOOSE x \in at : TRUE
                  IN  IF Replaces(unique[k], pool)
                      THEN MostRecentPools([unique EXCEPT ![k] = pool], events, i + 1)
                      ELSE MostRecentPools(unique, events, i + 1)

\* the loop over uniquePools.values(): totalScore += amount + flowRate * timeElapsed
RECURSIVE AddPools(_, _, _, _)
AddPools(total, unique, k, t) ==
    IF k > Len(unique) THEN total
    ELSE AddPools(total + unique[k].amount + unique[k].flowRate * (t - unique[k].updatedAt),
                  unique, k + 1, t)

\* BigInt division: the quotient is truncated towards zero
BigIntDiv(a, b) == IF a >= 0 THEN a \div b ELSE 0 - ((0 - a) \div b)

\* the TotalScoreData calculateTotalScore() returns
TotalScoreOf(events, additional, t) ==
    LET unique == MostRecentPools(<<>>, events, 1)
        total == AddPools(additional * WeiPerToken, unique, 1, t)
    IN  [totalScore |-> BigIntDiv(total, WeiPerToken),
         poolCount |-> Len(unique),
         additionalTotalScore |-> additional]

NoTotal == [totalScore |-> NoValue, poolCount |-> NoValue, additionalTotalScore |-> NoValue]

\* calculateTotalScore(): the query answers with `events` and the result is
\* returned, or the request fails and the error is logged and rethrown
CalculateTotalScore(events, additional, answered) ==
    /\ sysPart = "total"
    /\ totalPc = "idle"
    /\ IF answered
       THEN /\ totalPc' = "done"
            /\ totalIn' = [events |-> events, additional |-> additional, now |-> sysNow]
            /\ totalOut' = TotalScoreOf(events, additional, sysNow)
       ELSE /\ totalPc' = "threw"
            /\ totalIn' = [events |-> <<>>, additional |-> additional, now |-> sysNow]
            /\ totalOut' = NoTotal
    /\ UNCHANGED <<sysPart, sysNow, usVars, pairVars, oldVars, taskVars>>

----------------------------------------------------------------------------
(* createPeriodicTask() *)

\* variant: the next run is scheduled when a run begins, as setInterval would
RunTaskEnter_Reschedule(timers, t, interval) == timers \cup {t + interval}

\* runTask() up to `await task()`: the timers it leaves pending
RunTaskEnter(timers, t, interval) == timers

\* the server's listen callback: createPeriodicTask(name, task, intervalMs) and one
\* call of the runTask it returns
StartTask(interval) ==
    /\ sysPart = "task"
    /\ taskInterval = 0
    /\ taskInterval' = interval
    /\ taskTimers' = RunTaskEnter(taskTimers, sysNow, interval)
    /\ taskInFlight' = taskInFlight + 1
    /\ taskLast' = [taskLast EXCEPT !.startedAt = sysNow]
    /\ UNCHANGED <<sysPart, sysNow, usVars, pairVars, oldVars, totalVars>>

\* task() settles: the catch block logs a rejection; finally setTimeout(runTask, intervalMs)
TaskSettle(outcome) ==
    /\ sysPart = "task"
    /\ taskInFlight > 0
    /\ taskInFlight' = taskInFlight - 1
    /\ taskTimers' = taskTimers \cup {sysNow + taskInterval}
    /\ taskLast' = [taskLast EXCEPT !.finishedAt = sysNow, !.outcome = outcome]
    /\ UNCHANGED <<sysPart, sysNow, usVars, pairVars, oldVars, totalVars, taskInterval>>

\* a setTimeout timer that is due fires: runTask() up to `await task()`
TaskTimerFires(due) ==
    /\ sysPart = "task"
    /\ due \in taskTimers
    /\ sysNow >= due
    /\ taskTimers' = RunTaskEnter(taskTimers \ {due}, sysNow, taskInterval)
    /\ taskInFlight' = taskInFlight + 1
    /\ taskLast' = [taskLast EXCEPT !.startedAt = sysNow]
    /\ UNCHANGED <<sysPart, sysNow, usVars, pairVars, oldVars, totalVars, taskInterval>>

----------------------------------------------------------------------------
(* Part 5 as a whole *)

SysParts == {"scores", "pair", "interval", "total", "task"}

\* the state of part 5 once its modules are evaluated: managers constructed,
\* no file written yet, no timer armed
SysReset ==
    /\ sysNow = 1
    /\ usState = [data |-> InitialScores, lastUpdatedAt |-> 0]
    /\ usFile = [kind |-> "absent", content |-> InitialScores]
    /\ usPc = "ready"
    /\ usFetchAt = 0
    /\ usRestarted = FALSE
    /\ usBefore = usState
    /\ usAfter = usState
    /\ mgrs = [m \in Managers |->
                [isUpdating |-> FALSE, pending |-> 0, data |-> DefaultData,
                 file |-> NoFile, result |-> "none"]]
    /\ pairOp = [kind |-> "none", mgr |-> "none"]
    /\ oldPc = "new"
    /\ oldState = DefaultData
    /\ oldFile = NoFile
    /\ oldInFlight = 0
    /\ oldTimer = [intervalSec |-> 0, nextFire |-> 0]
    /\ totalPc = "idle"
    /\ totalIn = [events |-> <<>>, additional |-> 0, now |-> 0]
    /\ totalOut = NoTotal
    /\ taskInterval = 0
    /\ taskTimers = {}
    /\ taskInFlight = 0
    /\ taskLast = [startedAt |-> 0, finishedAt |-> 0, outcome |-> "none"]

\* one second passes
SysAdvance ==
    /\ sysPart # "none"
    /\ sysNow < MaxClock
    /\ sysNow' = sysNow + 1
    /\ UNCHANGED <<sysPart, usVars, pairVars, oldVars, totalVars, taskVars>>

----------------------------------------------------------------------------
(* The parts of the state the other specifications leave alone *)

ExtIdle ==
    /\ DistIdle /\ FacadeIdle /\ PagesIdle /\ CfgIdle /\ BatchIdle /\ DiscIdle
    /\ sysPart = "none" /\ SysReset

----------------------------------------------------------------------------
(* Initial state: the process starts, nothing constructed yet *)

MgrInit ==
    /\ phase = "new"
    /\ intervalSec \in IntervalValues
    /\ skipInitialUpdate \in BOOLEAN
    /\ now = StartTime
    /\ data = DefaultData
    /\ file \in InitialFiles
    /\ isUpdating = FALSE
    /\ intervalId = FALSE
    /\ nextFire = 0
    /\ pending = 0
    /\ updateResult = "none"
    /\ errorsLogged = {}
    /\ got = NoRead
    /\ op = "init"
    /\ ticks = 0
    /\ loadedAtStart = FALSE
    /\ preRefresh = SnapshotPair(DefaultData)
    /\ lastCommit = SnapshotPair(DefaultData)
    /\ restarts = 0

----------------------------------------------------------------------------
(* Actions *)

\* new MetricsManager(initialData, updateFn, filename, intervalSec), including
\* startPeriodicUpdates() when the interval is positive
Construct ==
    /\ phase = "new"
    /\ phase' = "running"
    /\ op' = "construct"
    /\ UNCHANGED <<intervalSec, skipInitialUpdate, now, file, got, ticks, restarts>>
    /\ IF intervalSec > 0
       THEN LET ld == LoadFromFile(file, DefaultData)
                need == NeedsUpdate(intervalSec, ld.data, now)
                st == UpdateStart(FALSE, 0)
            IN  /\ data' = ld.data
                /\ loadedAtStart' = ld.loaded
                /\ lastCommit' = SnapshotPair(ld.data)
                /\ errorsLogged' = ld.logged
                /\ IF need /\ ~skipInitialUpdate
                   THEN /\ isUpdating' = st.isUpdating
                        /\ pending' = st.pending
                        /\ updateResult' = st.result
                        /\ preRefresh' = SnapshotPair(ld.data)
                   ELSE /\ isUpdating' = FALSE
                        /\ pending' = 0
                        /\ updateResult' = "none"
                        /\ preRefresh' = SnapshotPair(ld.data)
                /\ intervalId' = TRUE
                /\ nextFire' = now + intervalSec
       ELSE /\ data' = DefaultData
            /\ loadedAtStart' = FALSE
            /\ lastCommit' = SnapshotPair(DefaultData)
            /\ errorsLogged' = {}
            /\ isUpdating' = FALSE
            /\ pending' = 0
            /\ updateResult' = "none"
            /\ preRefresh' = SnapshotPair(DefaultData)
            /\ intervalId' = FALSE
            /\ nextFire' = 0

\* the setInterval callback: this.update()
TimerTick ==
    /\ phase = "running"
    /\ intervalId
    /\ now >= nextFire
    /\ LET st == UpdateStart(isUpdating, pending)
       IN  /\ isUpdating' = st.isUpdating
           /\ pending' = st.pending
           /\ updateResult' = st.result
           /\ preRefresh' = IF st.result = "pending" THEN SnapshotPair(data) ELSE preRefresh
    /\ nextFire' = nextFire + intervalSec
    /\ ticks' = 1
    /\ op' = "tick"
    /\ UNCHANGED <<phase, intervalSec, skipInitialUpdate, now, data, file, intervalId,
                   errorsLogged, got, loadedAtStart, lastCommit, restarts>>

\* updateFn() resolves with newData: commit, saveToFile(), finally
ComputeResolve(newData, w) ==
    /\ phase = "running"
    /\ pending > 0
    /\ LET snap == NewSnapshot(data, newData, now)
           sv == SaveToFile(snap, file, w)
           ct == UpdateCatch(snap, sv.file)
       IN  IF sv.threw
           THEN /\ data' = ct.data
                /\ file' = ct.file
                /\ errorsLogged' = errorsLogged \cup sv.logged \cup ct.logged
                /\ updateResult' = ct.result
           ELSE /\ data' = snap
                /\ file' = sv.file
                /\ errorsLogged' = errorsLogged \cup sv.logged
                /\ updateResult' = "resolved"
    /\ lastCommit' = [data |-> newData, lastUpdatedAt |-> now]
    /\ isUpdating' = UpdateFinally(isUpdating)
    /\ pending' = pending - 1
    /\ op' = "resolve"
    /\ UNCHANGED <<phase, intervalSec, skipInitialUpdate, now, intervalId, nextFire, got,
                   ticks, loadedAtStart, preRefresh, restarts>>

\* updateFn() rejects (or throws): catch, finally
ComputeReject ==
    /\ phase = "running"
    /\ pending > 0
    /\ LET ct == UpdateCatch(data, file)
       IN  /\ data' = ct.data
           /\ file' = ct.file
           /\ errorsLogged' = errorsLogged \cup ct.logged
           /\ updateResult' = ct.result
    /\ isUpdating' = UpdateFinally(isUpdating)
    /\ pending' = pending - 1
    /\ op' = "reject"
    /\ UNCHANGED <<phase, intervalSec, skipInitialUpdate, now, intervalId,
                   nextFire, got, ticks, loadedAtStart, preRefresh, lastCommit, restarts>>

\* a Query Facade accessor calls getData()
GetData ==
    /\ phase = "running"
    /\ got' = GetDataResult(data)
    /\ op' = "getData"
    /\ UNCHANGED <<phase, intervalSec, skipInitialUpdate, now, data, file, isUpdating,
                   intervalId, nextFire, pending, updateResult, errorsLogged, ticks,
                   loadedAtStart, preRefresh, lastCommit, restarts>>

\* stopPeriodicUpdates()
StopPeriodicUpdates ==
    /\ phase = "running"
    /\ intervalId
    /\ intervalId' = FALSE
    /\ op' = "stop"
    /\ UNCHANGED <<phase, intervalSec, skipInitialUpdate, now, data, file, isUpdating,
                   nextFire, pending, updateResult, errorsLogged, got, ticks,
                   loadedAtStart, preRefresh, lastCommit, restarts>>

\* one second passes
Advance ==
    /\ now < EndTime
    /\ now' = now + 1
    /\ op' = "advance"
    /\ UNCHANGED <<phase, intervalSec, skipInitialUpdate, data, file, isUpdating,
                   intervalId, nextFire, pending, updateResult, errorsLogged, got, ticks,
                   loadedAtStart, preRefresh, lastCommit, restarts>>

\* the process exits and is started again: memory is lost, the file stays
Restart ==
    /\ phase = "running"
    /\ restarts < MaxRestarts
    /\ restarts' = restarts + 1
    /\ phase' = "new"
    /\ data' = DefaultData
    /\ isUpdating' = FALSE
    /\ intervalId' = FALSE
    /\ nextFire' = 0
    /\ pending' = 0
    /\ updateResult' = "none"
    /\ errorsLogged' = {}
    /\ got' = NoRead
    /\ ticks' = 0
    /\ loadedAtStart' = FALSE
    /\ preRefresh' = SnapshotPair(DefaultData)
    /\ lastCommit' = SnapshotPair(DefaultData)
    /\ op' = "restart"
    /\ UNCHANGED <<intervalSec, skipInitialUpdate, now, file>>

Next ==
    \/ Construct /\ UNCHANGED <<aggVars, extVars>>
    \/ TimerTick /\ UNCHANGED <<aggVars, extVars>>
    \/ \E d \in DataValues \ {InitialData}, w \in WriteOutcomes :
          ComputeResolve(d, w) /\ UNCHANGED <<aggVars, extVars>>
    \/ ComputeReject /\ UNCHANGED <<aggVars, extVars>>
    \/ GetData /\ UNCHANGED <<aggVars, extVars>>
    \/ StopPeriodicUpdates /\ UNCHANGED <<aggVars, extVars>>
    \/ Advance /\ UNCHANGED <<aggVars, extVars>>
    \/ Restart /\ UNCHANGED <<aggVars, extVars>>

\* the manager alone: the aggregator's inputs stay empty
Init == MgrInit /\ AggIdle /\ ExtIdle

Spec == Init /\ [][Next]_vars

\* the aggregator alone: inputs drawn from the bounded sets, manager not constructed
AggMgrIdle ==
    /\ MgrInit
    /\ intervalSec = 0
    /\ ~skipInitialUpdate
    /\ file = NoFile

AggInit == AggMgrIdle /\ AggInputs /\ ExtIdle

AggNext == FetchVotingMetrics /\ UNCHANGED <<mgrVars, extVars>>

SpecAgg == AggInit /\ [][AggNext]_vars

\* the functions of part 3, each alone on inputs drawn from its bounded sets, the
\* manager not constructed and the aggregator not running
ExtInit ==
    /\ AggMgrIdle
    /\ AggIdle
    /\ sysPart = "none" /\ SysReset
    /\ \/ DistInputs /\ FacadeIdle /\ PagesIdle /\ CfgIdle /\ BatchIdle /\ DiscIdle
       \/ DistIdle /\ FacadeInputs /\ PagesIdle /\ CfgIdle /\ BatchIdle /\ DiscIdle
       \/ DistIdle /\ FacadeIdle /\ PagesInputs /\ CfgIdle /\ BatchIdle /\ DiscIdle
       \/ DistIdle /\ FacadeIdle /\ PagesIdle /\ CfgInputs /\ BatchIdle /\ DiscIdle
       \/ DistIdle /\ FacadeIdle /\ PagesIdle /\ CfgIdle /\ BatchInputs /\ DiscIdle
       \/ DistIdle /\ FacadeIdle /\ PagesIdle /\ CfgIdle /\ BatchIdle /\ DiscInputs

ExtNext ==
    \/ FetchDistributionMetrics /\ UNCHANGED <<mgrVars, aggVars, facadeVars, pageVars, cfgVars, moreVars>>
    \/ FetchDistributionThrows /\ UNCHANGED <<mgrVars, aggVars, facadeVars, pageVars, cfgVars, moreVars>>
    \/ CallGetDaoMembersCount /\ UNCHANGED <<mgrVars, aggVars, distVars, pageVars, cfgVars, moreVars>>
    \/ CallGetTotalDelegatedScore /\ UNCHANGED <<mgrVars, aggVars, distVars, pageVars, cfgVars, moreVars>>
    \/ \E v \in MinVpValues, b \in BOOLEAN :
          CallGetDaoMembersWithFilters(v, b) /\ UNCHANGED <<mgrVars, aggVars, distVars, pageVars, cfgVars, moreVars>>
    \/ CallGetTotalScore /\ UNCHANGED <<mgrVars, aggVars, distVars, pageVars, cfgVars, moreVars>>
    \/ CallGetDistributionMetrics /\ UNCHANGED <<mgrVars, aggVars, distVars, pageVars, cfgVars, moreVars>>
    \/ QueryPage /\ UNCHANGED <<mgrVars, aggVars, distVars, facadeVars, cfgVars, moreVars>>
    \/ QueryPageErrors /\ UNCHANGED <<mgrVars, aggVars, distVars, facadeVars, cfgVars, moreVars>>
    \/ QueryPageThrows /\ UNCHANGED <<mgrVars, aggVars, distVars, facadeVars, cfgVars, moreVars>>
    \/ CallGetSpaceConfig /\ UNCHANGED <<mgrVars, aggVars, distVars, facadeVars, pageVars, moreVars>>
    \/ \E t \in 0..MaxCfgElapsed, c \in HubConfigs :
          FetchSucceeds(t, c) /\ UNCHANGED <<mgrVars, aggVars, distVars, facadeVars, pageVars, moreVars>>
    \/ \E t \in 0..MaxCfgElapsed :
          FetchFails(t) /\ UNCHANGED <<mgrVars, aggVars, distVars, facadeVars, pageVars, moreVars>>
    \/ CfgAdvance /\ UNCHANGED <<mgrVars, aggVars, distVars, facadeVars, pageVars, moreVars>>
    \/ GotSpaceConfig /\ UNCHANGED <<mgrVars, aggVars, distVars, facadeVars, pageVars, cfgVars, discVars, sysVars>>
    \/ ChunkLoopSpins /\ UNCHANGED <<mgrVars, aggVars, distVars, facadeVars, pageVars, cfgVars, discVars, sysVars>>
    \/ ScoreChunk /\ UNCHANGED <<mgrVars, aggVars, distVars, facadeVars, pageVars, cfgVars, discVars, sysVars>>
    \/ BatchRejects /\ UNCHANGED <<mgrVars, aggVars, distVars, facadeVars, pageVars, cfgVars, discVars, sysVars>>
    \/ DiscoverPools /\ UNCHANGED <<mgrVars, aggVars, distVars, facadeVars, pageVars, cfgVars, batchVars, sysVars>>
    \/ DiscoverThrows /\ UNCHANGED <<mgrVars, aggVars, distVars, facadeVars, pageVars, cfgVars, batchVars, sysVars>>

SpecExt == ExtInit /\ [][ExtNext]_vars

\* the components of part 5, one at a time, everything else at rest
SysInit ==
    /\ AggMgrIdle
    /\ AggIdle
    /\ DistIdle /\ FacadeIdle /\ PagesIdle /\ CfgIdle /\ BatchIdle /\ DiscIdle
    /\ sysPart \in SysParts
    /\ SysReset

SysOthers == <<mgrVars, aggVars, distVars, facadeVars, pageVars, cfgVars, batchVars, discVars>>

SysNext ==
    \/ SysAdvance /\ UNCHANGED SysOthers
    \/ UsUpdate /\ UNCHANGED SysOthers
    \/ \E d \in DataValues \ {InitialData}, o \in {"saved", "unsaved", "rejected"} :
          UsSettle(d, o) /\ UNCHANGED SysOthers
    \/ UsRestart /\ UNCHANGED SysOthers
    \/ \E m \in Managers : PairUpdate(m) /\ UNCHANGED SysOthers
    \/ \E m \in Managers, d \in DataValues \ {InitialData},
          o \in WriteOutcomes \cup {"rejected"} :
          PairSettle(m, d, o) /\ UNCHANGED SysOthers
    \/ \E f \in {NoFile, JsonFile(NewSnapshot(DefaultData, MaxData, 1))}, i \in 1..MaxInterval :
          SetupPeriodicUpdates(f, i) /\ UNCHANGED SysOthers
    \/ OldTick /\ UNCHANGED SysOthers
    \/ \E d \in DataValues \ {InitialData}, o \in WriteOutcomes \cup {"rejected"} :
          OldSettle(d, o) /\ UNCHANGED SysOthers
    \/ /\ sysPart = "total" /\ totalPc = "idle"
       /\ \E es \in SeqsUpTo(PoolRecords, MaxEvents), a \in {0, 1}, ok \in BOOLEAN :
             CalculateTotalScore(es, a, ok) /\ UNCHANGED SysOthers
    \/ \E i \in 1..MaxInterval : StartTask(i) /\ UNCHANGED SysOthers
    \/ \E o \in {"returned", "threw"} : TaskSettle(o) /\ UNCHANGED SysOthers
    \/ \E due \in taskTimers : TaskTimerFires(due) /\ UNCHANGED SysOthers

SpecSys == SysInit /\ [][SysNext]_vars

----------------------------------------------------------------------------
(* Properties of the MetricsManager *)

\* the file on disk is one loadFromFile() would adopt
Adoptable(f) == f.kind = "json" /\ f.schemaVersion = FILE_SCHEMA_VERSION

\* C1: at most one updateFn() invocation is ever unsettled; an update() call made
\* while a refresh is in flight (a timer tick during the startup refresh or during
\* an earlier tick's refresh) returns at once as "skipped", starts no compute and
\* changes neither the snapshot nor the file; and when the refresh in flight
\* settles no further compute is started on behalf of the skipped calls.
C1_GuardedUpdate ==
    /\ [](pending <= 1)
    /\ [][ /\ (op' = "tick" /\ isUpdating) =>
                /\ pending' = pending
                /\ isUpdating'
                /\ updateResult' = "skipped"
                /\ UNCHANGED <<data, file>>
           /\ (op' \in {"resolve", "reject"}) =>
                /\ pending' = 0
                /\ ~isUpdating'
                /\ updateResult' # "rejected"
        ]_vars

\* C1 witness: a timer tick arrived while the refresh was in flight and was skipped
C1_Witness ==
    op = "tick" /\ updateResult = "skipped" /\ pending = 1 /\ isUpdating

\* C2: the pair held in memory is always the pair of one single commit; getData()
\* returns exactly that pair, during a refresh in flight it is the pair that was
\* held when the refresh began, and getData() changes nothing of the manager.
C2_GetDataIsolated ==
    /\ [](phase = "running" => SnapshotPair(data) = lastCommit)
    /\ [][ (op' = "getData") =>
                /\ got' = lastCommit
                /\ (isUpdating => got' = preRefresh)
                /\ UNCHANGED <<data, file, isUpdating, pending, intervalId, nextFire,
                               updateResult, errorsLogged>>
        ]_vars

\* C2 witness: getData() served a snapshot loaded from disk while a refresh was in flight
C2_Witness ==
    /\ op = "getData" /\ isUpdating /\ pending = 1
    /\ got = preRefresh /\ got.lastUpdatedAt > 0

\* C3: when updateFn() rejects, data and lastUpdatedAt stay what they were when
\* that update started, the file is not touched, and getData() keeps returning
\* that snapshot.
C3_FailureKeepsSnapshot ==
    [][ /\ (op' = "reject") =>
             /\ UNCHANGED <<data, file>>
             /\ SnapshotPair(data') = preRefresh
        /\ (op = "reject" /\ op' = "getData") => got' = preRefresh
     ]_vars

\* C3 witness: a refresh failed while a snapshot loaded from disk was being served
C3_Witness ==
    /\ op = "reject" /\ "update" \in errorsLogged
    /\ data.lastUpdatedAt > 0 /\ data.data # InitialData /\ Adoptable(file)

\* C4: every file content written by a successful refresh carries
\* schemaVersion = FILE_SCHEMA_VERSION.
C4_WrittenSchemaVersion ==
    [][ (op' = "resolve" /\ file' # file /\ file'.kind = "json") =>
            file'.schemaVersion = FILE_SCHEMA_VERSION ]_vars

\* C4 witness: a refresh has replaced a file of another schema version
C4_Witness ==
    /\ op = "resolve" /\ file.kind = "json" /\ file.data = data.data
    /\ file.lastUpdatedAt = now /\ ~loadedAtStart /\ "mismatch" \in errorsLogged

\* C5: right after construction with a file that is absent, unparsable or of another
\* schema version, the manager holds the initial default with lastUpdatedAt 0 and
\* nothing of the file; with a positive interval it needs an update, and the
\* startup refresh is started exactly as it is without a file (unless
\* SKIP_INITIAL_UPDATE is set).
C5_RejectedFileIsAbsent ==
    (op = "construct" /\ ~Adoptable(file)) =>
        /\ data = DefaultData
        /\ ~loadedAtStart
        /\ intervalSec > 0 =>
             /\ NeedsUpdate(intervalSec, data, now)
             /\ isUpdating = ~skipInitialUpdate
             /\ pending = (IF skipInitialUpdate THEN 0 ELSE 1)

\* C5 witness: a file of another schema version with real content was rejected and
\* the cold-start refresh began
C5_Witness ==
    /\ op = "construct" /\ file.kind = "json" /\ file.schemaVersion # FILE_SCHEMA_VERSION
    /\ file.data # InitialData /\ file.lastUpdatedAt = now
    /\ data = DefaultData /\ isUpdating

\* C6 as claimed: right after construction with a positive interval, a refresh is in
\* flight iff no snapshot was loaded or the loaded one is at least intervalSec old.
C6_Original ==
    (op = "construct" /\ intervalSec > 0) =>
        IF loadedAtStart /\ now - data.lastUpdatedAt < intervalSec
        THEN ~isUpdating /\ pending = 0
        ELSE isUpdating /\ pending = 1

\* C6 amended: as claimed, except that with SKIP_INITIAL_UPDATE set no startup
\* refresh is triggered at all; and in every case no compute is started between
\* construction and the first timer tick.
C6_StartupRefresh ==
    /\ [](  (op = "construct" /\ intervalSec > 0) =>
              IF (loadedAtStart /\ now - data.lastUpdatedAt < intervalSec) \/ skipInitialUpdate
              THEN ~isUpdating /\ pending = 0
              ELSE isUpdating /\ pending = 1 )
    /\ [][ (phase = "running" /\ phase' = "running" /\ ticks' = 0) => pending' <= pending ]_vars

\* C6 witness: a loaded snapshot exactly intervalSec old triggered the startup refresh
C6_Witness ==
    /\ op = "construct" /\ intervalSec > 0 /\ loadedAtStart /\ ~skipInitialUpdate
    /\ now - data.lastUpdatedAt = intervalSec /\ isUpdating /\ pending = 1

\* C7 as claimed: right after construction, whatever the interval, an adoptable file
\* is what getData() returns.
C7_LoadsOnConstruction ==
    (op = "construct" /\ Adoptable(file)) =>
        GetDataResult(data) = [data |-> file.data, lastUpdatedAt |-> file.lastUpdatedAt]

\* C8: no update() promise is ever rejected, whatever fails (compute, load, write);
\* the in-flight flag never stays set without a compute in flight, so that later
\* updates run and commit.
C8_UpdateNeverRejects ==
    /\ updateResult # "rejected"
    /\ (phase = "running" /\ pending = 0) => ~isUpdating

\* C8 witness: after a load error, a failed compute and a failed write had been
\* logged, a later update committed and was saved
C8_Witness ==
    /\ {"load", "update", "save"} \subseteq errorsLogged
    /\ op = "resolve" /\ updateResult = "resolved" /\ ~isUpdating
    /\ data.lastUpdatedAt = now /\ file = JsonFile(data)

\* C34: isUpdating is true exactly while an updateFn() invocation is unsettled; it
\* is cleared when the refresh ends, by success and by failure alike; and an update()
\* call that finds the flag clear (in particular the first one after a refresh has
\* ended, failed or not) always invokes updateFn() again.
C34_FlagTracksCompute ==
    /\ [](isUpdating <=> pending > 0)
    /\ [][ /\ (op' \in {"resolve", "reject"}) => (~isUpdating' /\ pending' = 0)
           /\ (op' = "tick" /\ ~isUpdating) =>
                /\ isUpdating'
                /\ pending' = pending + 1
                /\ updateResult' = "pending"
        ]_vars

\* C34 witness: a refresh failed, and the next timer tick started a compute again
C34_Witness ==
    /\ op = "tick" /\ updateResult = "pending" /\ isUpdating /\ pending = 1
    /\ "update" \in errorsLogged /\ data = DefaultData

\* C36 as claimed: the file changes only by a refresh writing exactly the snapshot
\* it has just committed in memory (so the file is always the startup file or a
\* snapshot committed earlier); a refresh whose write fails still commits in memory;
\* and the timestamp in memory never goes back while the process runs, so memory is
\* never older than what this manager wrote.
C36_FileIsCommittedSnapshot ==
    [][ /\ (file' # file) => (op' = "resolve" /\ file' = JsonFile(data'))
        /\ (op' = "resolve") =>
              /\ SnapshotPair(data') = lastCommit'
              /\ data'.lastUpdatedAt = now
        /\ (phase = "running" /\ phase' = "running") =>
              data'.lastUpdatedAt >= data.lastUpdatedAt
     ]_vars

----------------------------------------------------------------------------
(* Properties of the aggregator *)

\* no two fetched edges have the same (lowercased) delegator
OneEdgePerDelegator ==
    \A i, j \in 1..Len(delegations) :
        i # j => ToLowerCase(delegations[i].delegator) # ToLowerCase(delegations[j].delegator)

\* the delegators whose edge points to address a
InboundDelegators(a) ==
    { ToLowerCase(delegations[i].delegator) :
        i \in {k \in 1..Len(delegations) : ToLowerCase(delegations[k].delegate) = a} }

\* ownVp of the member with address a
OwnVpOf(a) ==
    LET j == CHOOSE j \in 1..Len(members) : members[j].address = a
    IN  members[j].ownVp

RECURSIVE SumOwnVp(_)
SumOwnVp(S) ==
    IF S = {} THEN 0
    ELSE LET x == CHOOSE x \in S : TRUE
         IN  OwnVpOf(x) + SumOwnVp(S \ {x})

DelegatedVpOr0(m) == IF m.delegatedVp = NoValue THEN 0 ELSE m.delegatedVp

\* C9: with at most one edge per delegator, every member's delegatedVp (0 when
\* absent) is the sum of the members' ownVp over the delegators whose edge points
\* to it, and every delegator is itself a member.
C9_DelegatedVpIsSum ==
    (aggPc = "done" /\ OneEdgePerDelegator) =>
        \A j \in 1..Len(members) :
            /\ \A d \in InboundDelegators(members[j].address) :
                  \E h \in 1..Len(members) : members[h].address = d
            /\ DelegatedVpOr0(members[j]) = SumOwnVp(InboundDelegators(members[j].address))

\* C9 witness: edges A->D and B->D with ownVp(A) = 100 and ownVp(B) = 50 gave D
\* delegatedVp 150 and nrDelegators 2
C9_Witness ==
    /\ aggPc = "done"
    /\ delegations = <<[delegator |-> "0xa", delegate |-> "0xD"],
                       [delegator |-> "0xb", delegate |-> "0xd"]>>
    /\ scores["0xa"] = 100 /\ scores["0xb"] = 50
    /\ \E j \in 1..Len(members) :
          /\ members[j].address = "0xd"
          /\ members[j].delegatedVp = 150
          /\ members[j].nrDelegators = 2

\* C10: the returned entries are non-increasing in ownVp + delegatedVp.
C10_SortedByTotal ==
    aggPc = "done" =>
        \A i, j \in 1..Len(members) : i < j => Total(members[i]) >= Total(members[j])

\* C10 witness: three members or more, reordered against the order of insertion,
\* one of them ranked above a member with larger ownVp thanks to its delegatedVp
C10_Witness ==
    /\ aggPc = "done" /\ Len(members) >= 3
    /\ members[1].address # ownVotingPowers[1].address
    /\ \E i, j \in 1..Len(members) :
          i < j /\ members[i].ownVp < members[j].ownVp /\ Total(members[i]) > Total(members[j])

\* lockerToOwnerMap as fetchVotingMetrics() built it
LockerMap == LockerToOwnerMap(<<>>, lockerOwners, 1)

\* C14: a pool member whose lockerOwner() read failed has no entry in the
\* locker-to-owner map; every member whose read succeeded - of the same pool or of
\* another - has its entry, lowercased, and its owner is a member of the returned
\* snapshot; the failure does not keep fetchVotingMetrics() from returning.
C14_FailedLockerSkipped ==
    aggPc = "done" =>
        \A i \in 1..Len(pools) : \A j \in 1..Len(pools[i]) :
            LET e == pools[i][j]
            IN  IF e.owner = NoAddr
                THEN \A k \in 1..Len(LockerMap) : LockerMap[k].locker # ToLowerCase(e.locker)
                ELSE /\ \E k \in 1..Len(LockerMap) :
                          LockerMap[k] = [locker |-> ToLowerCase(e.locker),
                                          owner |-> ToLowerCase(e.owner)]
                     /\ \E h \in 1..Len(members) :
                          /\ members[h].address = ToLowerCase(e.owner)
                          /\ members[h].locker # NoAddr

\* C14 witness: the read for 0xlx failed; 0xl1 of the same pool and 0xl2 of the
\* next pool were resolved, and the snapshot was returned with the owner in it
C14_Witness ==
    /\ aggPc = "done"
    /\ Len(pools) = 2 /\ pools[1][1] = [locker |-> "0xlx", owner |-> NoAddr]
    /\ LockerMap = <<[locker |-> "0xl1", owner |-> "0xa"],
                     [locker |-> "0xl2", owner |-> "0xa"]>>
    /\ \E h \in 1..Len(members) : members[h].address = "0xa" /\ members[h].locker = "0xl1"

IsMember(a) == \E j \in 1..Len(members) : members[j].address = a

\* C21: in every returned snapshot, the lowercased delegator and delegate of every
\* fetched edge are keys of members; an address the scoring engine returned no score
\* for has ownVp = 0; and every delegate field names a key of members.
C21_EdgesResolve ==
    aggPc = "done" =>
        /\ \A i \in 1..Len(delegations) :
              /\ IsMember(ToLowerCase(delegations[i].delegator))
              /\ IsMember(ToLowerCase(delegations[i].delegate))
        /\ \A j \in 1..Len(members) :
              /\ members[j].address \notin DOMAIN scores => members[j].ownVp = 0
              /\ members[j].delegate # NoAddr => IsMember(members[j].delegate)

\* C21 witness: 0xD, unknown to the scoring engine, delegates to 0xa; it is a
\* member with ownVp 0 and delegate 0xa
C21_Witness ==
    /\ aggPc = "done"
    /\ "0xd" \notin DOMAIN scores
    /\ delegations = <<[delegator |-> "0xD", delegate |-> "0xa"]>>
    /\ \E j \in 1..Len(members) :
          /\ members[j].address = "0xd" /\ members[j].ownVp = 0
          /\ members[j].delegate = "0xa"

\* the fetched edges pointing to a whose delegator has nonzero own voting power
NonzeroInbound(a) ==
    { i \in 1..Len(delegations) :
        /\ ToLowerCase(delegations[i].delegate) = a
        /\ OwnVpOf(ToLowerCase(delegations[i].delegator)) # 0 }

\* C22: for every member, delegatedVp and nrDelegators are both present or both
\* absent; they are present iff some inbound edge has a delegator with nonzero own
\* voting power, and then delegatedVp > 0 and nrDelegators >= 1.
C22_DelegateFieldsPresence ==
    aggPc = "done" =>
        \A j \in 1..Len(members) :
            LET m == members[j]
            IN  /\ (m.delegatedVp = NoValue) <=> (m.nrDelegators = NoValue)
                /\ (m.delegatedVp # NoValue) <=> (NonzeroInbound(m.address) # {})
                /\ m.delegatedVp # NoValue => (m.delegatedVp > 0 /\ m.nrDelegators >= 1)

\* C22 witness: 0xa (own 0) delegates to 0xb and 0xb (own 100) delegates to 0xd:
\* 0xb has an inbound edge and no delegate fields, 0xd has both fields
C22_Witness ==
    /\ aggPc = "done"
    /\ delegations = <<[delegator |-> "0xa", delegate |-> "0xb"],
                       [delegator |-> "0xb", delegate |-> "0xd"]>>
    /\ \E j, h \in 1..Len(members) :
          /\ members[j].address = "0xb" /\ members[j].ownVp = 100
          /\ members[j].delegatedVp = NoValue /\ members[j].nrDelegators = NoValue
          /\ members[h].address = "0xd"
          /\ members[h].delegatedVp = 100 /\ members[h].nrDelegators = 1
          /\ OwnVpOf("0xa") = 0

\* C23 as claimed: nrDelegators of a member is the number of its inbound edges whose
\* delegator has nonzero own voting power; an edge from a zero-power delegator
\* changes neither delegatedVp nor nrDelegators.
C23_CountsNonzeroOnly ==
    aggPc = "done" =>
        \A j \in 1..Len(members) :
            members[j].nrDelegators # NoValue =>
                members[j].nrDelegators = Cardinality(NonzeroInbound(members[j].address))

\* index of the last fetched edge whose delegator is a, 0 if there is none
LastEdgeOf(a) ==
    LET own == {i \in 1..Len(delegations) : ToLowerCase(delegations[i].delegator) = a}
    IN  IF own = {} THEN 0 ELSE CHOOSE i \in own : \A k \in own : k <= i

RECURSIVE SumOverEdges(_, _)
\* the delegators' ownVp added up over the edges I, edge by edge
SumOverEdges(I, a) ==
    IF I = {} THEN 0
    ELSE LET i == CHOOSE i \in I : TRUE
         IN  OwnVpOf(ToLowerCase(delegations[i].delegator)) + SumOverEdges(I \ {i}, a)

\* C24: a member has a delegate field iff some fetched edge has it as delegator; the
\* field is the delegate of the last such edge in the order fetched; and every
\* edge, superseded or not, adds its delegator's ownVp to the delegated total of
\* its own delegate.
C24_LastEdgeIsDelegate ==
    aggPc = "done" =>
        \A j \in 1..Len(members) :
            LET a == members[j].address
                last == LastEdgeOf(a)
                inbound == {i \in 1..Len(delegations) :
                               ToLowerCase(delegations[i].delegate) = a}
            IN  /\ (members[j].delegate # NoAddr) <=> (last # 0)
                /\ last # 0 => members[j].delegate = ToLowerCase(delegations[last].delegate)
                /\ MapGetOr0(delegatedVotingPower, a) = SumOverEdges(inbound, a)

\* C24 witness: 0xa (own 100) has the edges to 0xb and then to 0xD; its delegate is
\* 0xd, and 0xb and 0xd both received its 100
C24_Witness ==
    /\ aggPc = "done"
    /\ delegations = <<[delegator |-> "0xa", delegate |-> "0xb"],
                       [delegator |-> "0xa", delegate |-> "0xD"]>>
    /\ \E j, h, k \in 1..Len(members) :
          /\ members[j].address = "0xa" /\ members[j].ownVp = 100
          /\ members[j].delegate = "0xd"
          /\ members[h].address = "0xb" /\ members[h].delegatedVp = 100
          /\ members[k].address = "0xd" /\ members[k].delegatedVp = 100

----------------------------------------------------------------------------
(* Properties of the distribution metrics *)

\* C11 as claimed: in every returned DistributionMetrics, other plus the eight named
\* categories (reserveBalances, stakedSup, lpSup, streamingOut, communityCharge,
\* investorsTeamLocked, daoTreasury, foundationTreasury) is exactly totalSupply.
C11_OtherIsRemainder ==
    distPc = "done" =>
        metrics.other + metrics.reserveBalances + metrics.stakedSup + metrics.lpSup
        + metrics.streamingOut + metrics.communityCharge + metrics.investorsTeamLocked
        + metrics.daoTreasury + metrics.foundationTreasury = metrics.totalSupply

\* C27 as claimed: a network error on any request of a refresh aborts that refresh
\* (fetchDistributionMetrics returns nothing, so nothing is committed).
C27_NetworkErrorAborts ==
    chain.failing # "none" => distPc # "done"

\* the schedules getVestingSchedules() handed to fetchDistributionMetrics()
FetchedSchedules == GetVestingSchedules(chain)

\* flowRate x max(0, endDate - now) of the i-th fetched schedule
Remaining(i) ==
    LET left == FetchedSchedules[i].endDate - now
    IN  FetchedSchedules[i].flowRate * (IF left > 0 THEN left ELSE 0)

RECURSIVE SumRemaining(_)
SumRemaining(I) ==
    IF I = {} THEN 0
    ELSE LET i == CHOOSE i \in I : TRUE IN Remaining(i) + SumRemaining(I \ {i})

\* C29: daoTreasury is the treasury's balance in whole tokens plus the whole tokens
\* of the sum, over the fetched schedules, of flowRate x max(0, endDate - now); a
\* schedule with endDate <= now adds 0 and none adds a negative amount.
C29_TreasuryStreamingAdjustment ==
    distPc = "done" =>
        /\ metrics.daoTreasury =
              ToTokens(chain.daoTreasuryBalance)
              + ToTokens(SumRemaining(1..Len(FetchedSchedules)))
        /\ \A i \in 1..Len(FetchedSchedules) :
              /\ Remaining(i) >= 0
              /\ FetchedSchedules[i].endDate <= now => Remaining(i) = 0

\* C29 witness: a balance of one and a half tokens, a schedule that ended a second
\* ago and one with a second left at one and a half tokens per second: daoTreasury
\* is 1 + 1
C29_Witness ==
    /\ distPc = "done"
    /\ chain.failing = "none"
    /\ chain.daoTreasuryBalance = 3
    /\ chain.vestingSchedules = <<[endDate |-> now - 1, flowRate |-> 3],
                                  [endDate |-> now + 1, flowRate |-> 3]>>
    /\ metrics.daoTreasury = 2

RECURSIVE SumOfReads(_, _)
\* the reads named f of the lockers I added up, a failed read counting 0
SumOfReads(I, f) ==
    IF I = {} THEN 0
    ELSE LET i == CHOOSE i \in I : TRUE
         IN  ReadOrZero(chain.lockers[i][f]) + SumOfReads(I \ {i}, f)

RECURSIVE BatchedLockers(_)
\* the lockers of the first k batches read, in order
BatchedLockers(k) ==
    IF k = 0 THEN <<>> ELSE BatchedLockers(k - 1) \o lockerBatches[k]

\* C30: reserveBalances and stakedSup are the whole tokens of the sums of the
\* lockers' reads, a failed read counting 0; the batches read are at most the batch
\* size long and together are the discovered lockers, each once; and
\* fetchDistributionMetrics fails only on a request outside the per-locker reads.
C30_LockerSums ==
    /\ distPc = "done" =>
          /\ metrics.reserveBalances =
                ToTokens(SumOfReads(1..Len(chain.lockers), "available"))
          /\ metrics.stakedSup = ToTokens(SumOfReads(1..Len(chain.lockers), "staked"))
          /\ \A k \in 1..Len(lockerBatches) : Len(lockerBatches[k]) \in 1..LockerBatchSize
          /\ BatchedLockers(Len(lockerBatches)) = chain.lockers
    /\ distPc = "failed" => chain.failing \in {"contractRead", "lockersPage"}

\* C30 witness: three lockers read in two batches, two of the six reads failed;
\* reserveBalances is 2 (of 3 + 1 halves) and stakedSup is 1 (of 3 halves)
C30_Witness ==
    /\ distPc = "done"
    /\ chain.lockers = <<[available |-> NoValue, staked |-> 3],
                         [available |-> 3, staked |-> 0],
                         [available |-> 1, staked |-> NoValue]>>
    /\ Len(lockerBatches) = 2 /\ Len(lockerBatches[2]) = 1
    /\ metrics.reserveBalances = 2 /\ metrics.stakedSup = 1

----------------------------------------------------------------------------
(* Properties of the Query Facade *)

\* the position of address a in the snapshot's member order (0 if absent)
PositionOf(a) ==
    IF \E i \in 1..Len(votingData.data) : votingData.data[i].address = a
    THEN CHOOSE i \in 1..Len(votingData.data) : votingData.data[i].address = a
    ELSE 0

\* C12: getDaoMembersWithFilters(minVotingPower, includeAllDelegates) returns a
\* member iff (includeAllDelegates and the member is a delegate, i.e. carries
\* delegatedVp) or its ownVp >= minVotingPower; totalMembersCount is the number of
\* members of the snapshot, filtered or not.
C12_FilterRule ==
    request.fn = "getDaoMembersWithFilters" =>
        /\ response.totalMembersCount = Len(votingData.data)
        /\ \A i \in 1..Len(votingData.data) :
              LET m == votingData.data[i]
              IN  (\E j \in 1..Len(response.daoMembers) :
                      response.daoMembers[j].address = m.address)
                  <=> \/ request.includeAllDelegates /\ m.delegatedVp # NoValue
                      \/ m.ownVp >= request.minVotingPower

\* C12 witness: with minVotingPower = 100 and includeAllDelegates = true a member
\* with ownVp 0 and delegatedVp 100 was returned and a member with ownVp 50 and no
\* delegatedVp was not
C12_Witness ==
    /\ request.fn = "getDaoMembersWithFilters"
    /\ request.minVotingPower = 100 /\ request.includeAllDelegates
    /\ \E i, k \in 1..Len(votingData.data) :
          /\ votingData.data[i].ownVp = 0 /\ votingData.data[i].delegatedVp = 100
          /\ \E j \in 1..Len(response.daoMembers) :
                response.daoMembers[j].address = votingData.data[i].address
          /\ votingData.data[k].ownVp = 50 /\ votingData.data[k].delegatedVp = NoValue
          /\ \A j \in 1..Len(response.daoMembers) :
                response.daoMembers[j].address # votingData.data[k].address

\* C13: the filtered list is a subsequence of the snapshot's member order: every
\* returned member is a member of the snapshot, no member is returned twice, any
\* two returned members stand in the order they have in the snapshot, and the list
\* is therefore non-increasing in votingPower + delegatedVotingPower.
C13_OrderPreserved ==
    request.fn = "getDaoMembersWithFilters" =>
        /\ \A j \in 1..Len(response.daoMembers) :
              PositionOf(response.daoMembers[j].address) # 0
        /\ \A j, k \in 1..Len(response.daoMembers) :
              j < k =>
                /\ PositionOf(response.daoMembers[j].address)
                      < PositionOf(response.daoMembers[k].address)
                /\ response.daoMembers[j].votingPower
                      + OrZero(response.daoMembers[j].isDelegate.delegatedVotingPower)
                   >= response.daoMembers[k].votingPower
                      + OrZero(response.daoMembers[k].isDelegate.delegatedVotingPower)

\* C13 witness: of three members the first and the third were returned, the first
\* (a delegate) with less own voting power than the third
C13_Witness ==
    /\ request.fn = "getDaoMembersWithFilters"
    /\ Len(votingData.data) = 3 /\ Len(response.daoMembers) = 2
    /\ response.daoMembers[1].address = votingData.data[1].address
    /\ response.daoMembers[2].address = votingData.data[3].address
    /\ response.daoMembers[1].votingPower < response.daoMembers[2].votingPower

RECURSIVE SumDelegatedScores(_)
\* the sum of delegatedVp over the snapshot members at the positions I
SumDelegatedScores(I) ==
    IF I = {} THEN 0
    ELSE LET i == CHOOSE i \in I : TRUE
         IN  OrZero(votingData.data[i].delegatedVp) + SumDelegatedScores(I \ {i})

\* the positions of the snapshot members with delegatedVp > 0
DelegatePositions ==
    {i \in 1..Len(votingData.data) : OrZero(votingData.data[i].delegatedVp) > 0}

C19_ZeroDefaults ==
    /\ request.fn = "getTotalScore" => response.totalScore # NoValue
    /\ (request.fn = "getDaoMembersCount" /\ votingData = InitialSnapshot(<<>>)) =>
          response = [daoMembersCount |-> 0, lastUpdatedAt |-> 0]
    /\ (request.fn = "getTotalDelegatedScore" /\ votingData = InitialSnapshot(<<>>)) =>
          response = [totalDelegatedScore |-> 0, perDelegateScore |-> <<>>,
                      lastUpdatedAt |-> 0]
    /\ (request.fn = "getDaoMembersWithFilters" /\ votingData = InitialSnapshot(<<>>)) =>
          response = [totalMembersCount |-> 0, daoMembers |-> <<>>, lastUpdatedAt |-> 0]
    /\ (request.fn = "getTotalScore" /\ scoreData = InitialSnapshot(EmptyTotalScore)) =>
          response = [totalScore |-> 0, lastUpdatedAt |-> 0]
    /\ (request.fn = "getDistributionMetrics"
          /\ distData = InitialSnapshot(InitialDistribution)) =>
          /\ response.lastUpdatedAt = 0
          /\ \A c \in {"reserveBalances", "stakedSup", "lpSup", "streamingOut",
                        "communityCharge", "investorsTeamLocked", "daoTreasury",
                        "foundationTreasury", "other"} : response.metrics[c] = 0

----------------------------------------------------------------------------
(* Properties of the paginated fetcher *)

RECURSIVE MappedItems(_, _)
\* the mapped items of the logged pages from the k-th on, concatenated
MappedItems(log, k) ==
    IF k > Len(log) THEN <<>>
    ELSE [i \in 1..Len(log[k].ids) |-> ItemFn(RawItem(log[k].ids[i]))]
         \o MappedItems(log, k + 1)

\* the k-th logged request was answered with a page of (at least) PageSize items
FullPage(k) == pageLog[k].kind = "items" /\ Len(pageLog[k].ids) >= PageSize

\* what C15 and its amended form share: the first request carries the empty
\* cursor; a further request is issued only after a full page, with the id of that
\* page's last item as cursor; a page of fewer than PageSize items is the last one
\* requested and ends the call; the call returns the mapped items of all its pages,
\* concatenated in request order.
PagingRule ==
    /\ Len(pageLog) >= 1 => pageLog[1].cursor = EmptyCursor
    /\ \A k \in 1..(Len(pageLog) - 1) :
          /\ FullPage(k)
          /\ pageLog[k + 1].cursor = pageLog[k].ids[Len(pageLog[k].ids)]
    /\ \A k \in 1..Len(pageLog) :
          (pageLog[k].kind = "items" /\ ~FullPage(k)) =>
              k = Len(pageLog) /\ pagePc = "returned"
    /\ pagePc = "returned" => items = MappedItems(pageLog, 1)

\* C15 as claimed: the paging rule, and after each full page the next request is
\* issued, i.e. the call does not end on a full page.
C15_Original ==
    /\ PagingRule
    /\ (Len(pageLog) >= 1 /\ FullPage(Len(pageLog))) => pagePc = "running"

\* C15 amended: the paging rule; the call ends on a full page only if STOP_EARLY is
\* set, and with STOP_EARLY set it ends on the first full page, after one request.
C15_CursorPaging ==
    /\ PagingRule
    /\ (Len(pageLog) >= 1 /\ FullPage(Len(pageLog))) =>
          IF stopEarly THEN pagePc = "returned" /\ Len(pageLog) = 1
          ELSE pagePc = "running"

\* C15 witness: two full pages and a short one were fetched with the cursors
\* "", 2 and 4, and the five mapped items were returned in id order
C15_Witness ==
    /\ pagePc = "returned" /\ ~stopEarly
    /\ Len(pageLog) = 3
    /\ pageLog[2].cursor = 2 /\ pageLog[3].cursor = 4
    /\ pageLog[3].kind = "items"
    /\ items = <<10, 20, 30, 40, 50>>

\* no request of the call so far met query-level errors or a failed request
NoPageErrors == \A k \in 1..Len(pageLog) : pageLog[k].kind = "items"

\* C37: over N upstream items served by ascending id, with no errors and STOP_EARLY
\* unset, queryAllPages is still running after fewer than floor(N / pageSize) + 1
\* requests only, and it returns after exactly that many, with each of the N items
\* once, mapped, in id order; when N is a positive multiple of pageSize the last
\* request is answered with an empty page and the call returns normally.
C37_RequestCount ==
    (~stopEarly /\ NoPageErrors) =>
        /\ pagePc # "threw"
        /\ pagePc = "running" => Len(pageLog) <= Len(upstream) \div PageSize
        /\ pagePc = "returned" =>
              /\ Len(pageLog) = Len(upstream) \div PageSize + 1
              /\ items = [i \in 1..Len(upstream) |-> ItemFn(RawItem(upstream[i]))]
              /\ (Len(upstream) > 0 /\ Len(upstream) % PageSize = 0) =>
                    pageLog[Len(pageLog)].ids = <<>>

\* C37 witness: four items, twice the page size, were returned after three
\* requests, the last of which was answered with an empty page
C37_Witness ==
    /\ pagePc = "returned" /\ ~stopEarly /\ NoPageErrors
    /\ Len(upstream) = 2 * PageSize /\ Len(pageLog) = 3
    /\ pageLog[3].ids = <<>> /\ Len(items) = 4

\* C16: a response with query-level errors is the last one of the call: the call
\* returns (it does not throw), nothing is requested after it - the errored cursor
\* is sent once - and the items returned are exactly those of the earlier pages.
C16_ErrorsStopQuietly ==
    \A k \in 1..Len(pageLog) :
        pageLog[k].kind = "errors" =>
            /\ k = Len(pageLog)
            /\ pagePc = "returned"
            /\ \A j \in 1..(k - 1) : pageLog[j].cursor # pageLog[k].cursor
            /\ items = MappedItems(SubSeq(pageLog, 1, k - 1), 1)

\* C16 witness: the second request was answered with errors and the call returned
\* the two items of the first page
C16_Witness ==
    /\ pagePc = "returned"
    /\ Len(pageLog) = 2 /\ pageLog[1].kind = "items" /\ pageLog[2].kind = "errors"
    /\ Len(items) = PageSize

----------------------------------------------------------------------------
(* Properties of the space configuration cache *)

\* C17: when the fetch of a getSpaceConfig() call fails, the call returns the
\* cached config if one is cached, whatever its age, and throws only if none is.
C17_FallbackOnFailure ==
    /\ cfgLast.op = "fallback" =>
          /\ cachedSpaceConfig # NoConfig
          /\ cfgLast.returned = cachedSpaceConfig
          /\ cfgLast.prior = cachedSpaceConfig
    /\ cfgLast.op = "throw" =>
          cachedSpaceConfig = NoConfig /\ cfgLast.returned = NoConfig

\* C17 witness: the fetch failed while the cached config was older than the
\* expiration, and that config was returned
C17_Witness ==
    /\ cfgLast.op = "fallback"
    /\ cfgLast.now - cachedSpaceConfig.lastUpdatedAt > SpaceConfigExpiration
    /\ cfgLast.returned = cachedSpaceConfig

\* C18: a call returns the cached config without a request to the hub iff a config
\* is cached and its age is strictly below the expiration; any other call sends a
\* request, and when that succeeds the cache is the fetched config stamped with
\* the time the call read.
C18_FreshnessRule ==
    /\ [](cfgLast.op = "hit" =>
             /\ cfgLast.prior # NoConfig
             /\ cfgLast.now - cfgLast.prior.lastUpdatedAt < SpaceConfigExpiration
             /\ cfgLast.returned = cfgLast.prior
             /\ cachedSpaceConfig = cfgLast.prior)
    /\ [](cfgLast.op = "send" =>
             /\ \/ cfgLast.prior = NoConfig
                \/ cfgLast.now - cfgLast.prior.lastUpdatedAt >= SpaceConfigExpiration
             /\ cfgLast.now \in cfgCalls)
    /\ [](cfgLast.op = "ok" =>
             /\ cachedSpaceConfig.config \in HubConfigs
             /\ cachedSpaceConfig.lastUpdatedAt = cfgLast.now
             /\ cfgLast.returned = cachedSpaceConfig)
    /\ [][ /\ cfgLast'.op = "hit" => UNCHANGED <<cfgCalls, cachedSpaceConfig>>
           /\ cachedSpaceConfig' # cachedSpaceConfig => cfgLast'.op = "ok"
        ]_vars

\* C18 witness: a config cached at 0 was exactly SpaceConfigExpiration old when
\* the call began; the call fetched, and the cache became the new config with the
\* call's time
C18_Witness ==
    /\ cfgLast.op = "ok"
    /\ cfgLast.prior = [config |-> 1, lastUpdatedAt |-> 0]
    /\ cfgLast.now = SpaceConfigExpiration
    /\ cachedSpaceConfig = [config |-> 2, lastUpdatedAt |-> SpaceConfigExpiration]

\* C38: once a config is cached it is never cleared and no call fails any more; a
\* failed fetch, whether it ends in the fallback or in a rethrow, leaves the cached
\* config and its lastUpdatedAt as they were; and every call that finds the cached
\* config expired sends a new request, as long as no fetch has succeeded.
C38_CacheNeverLost ==
    /\ [](cachedSpaceConfig # NoConfig => cfgLast.op # "throw")
    /\ [][ /\ cachedSpaceConfig # NoConfig => cachedSpaceConfig' # NoConfig
           /\ (cfgLast'.op \in {"fallback", "throw"} /\ cfgLast' # cfgLast) =>
                cachedSpaceConfig' = cachedSpaceConfig
           /\ ( /\ cfgLast'.op \in {"hit", "send"} /\ cfgLast' # cfgLast
                /\ cachedSpaceConfig # NoConfig
                /\ cfgNow - cachedSpaceConfig.lastUpdatedAt >= SpaceConfigExpiration ) =>
                /\ cfgLast'.op = "send"
                /\ cfgNow \in cfgCalls'
        ]_vars

\* C38 witness: with an expired config cached, one call's fetch failed and was
\* answered from the cache, untouched, while the fetch of a later call is pending
C38_Witness ==
    /\ cfgLast.op = "fallback" /\ cfgLast.returned = cachedSpaceConfig
    /\ cfgLast.prior = cachedSpaceConfig
    /\ cfgLast.now - cachedSpaceConfig.lastUpdatedAt >= SpaceConfigExpiration
    /\ \E t \in cfgCalls : t > cfgLast.now


----------------------------------------------------------------------------
(* Properties of the pool discovery *)

\* C28 as claimed: the pools crawled in a refresh are the distinct pool ids over all
\* distribution events of the program manager, however many events exist upstream.
C28_AllPoolsDiscovered ==
    discPc = "done" =>
        {uniquePools[i] : i \in 1..Len(uniquePools)}
            = {poolEvents[i] : i \in 1..Len(poolEvents)}

----------------------------------------------------------------------------
(* Properties of the batched scoring *)

\* the score the engine holds for address a under strategy s, 0 if it holds none
HeldScore(s, a) == MapGetOr0(batchIn.table[s], ToLowerCase(a))

RECURSIVE SumHeld(_, _)
\* the held scores of a added up over the strategies sent at the positions K
SumHeld(K, a) ==
    IF K = {} THEN 0
    ELSE LET k == CHOOSE k \in K : TRUE
         IN  HeldScore(sent[k], a) + SumHeld(K \ {k}, a)

RECURSIVE ScoredAddresses(_)
\* the addresses of the first k scoring calls, in the order sent
ScoredAddresses(k) ==
    IF k = 0 THEN <<>> ELSE ScoredAddresses(k - 1) \o scoreCalls[k].chunk

\* C25: getVotingPowerBatch makes one scoring call per chunk; the chunks are
\* consecutive slices of the input of at most the chunk size, all but the last of
\* exactly that size, together the input in order (every input position scored in
\* exactly one call); the result has one entry per input address in input order,
\* with the lowercased address and the engine's score for it, 0 where the engine
\* holds none. The score is the sum over the strategies the result mapping reads.
C25_ChunkedScoring ==
    (batchPc = "returned" /\ batchIn.size > 0) =>
        LET n == Len(batchIn.addresses)
            size == batchIn.size
            own == IF batchIn.includeDelegations THEN {1, 3} ELSE {1, 2}
        IN  /\ Len(scoreCalls) = (n + size - 1) \div size
            /\ \A k \in 1..Len(scoreCalls) :
                  /\ Len(scoreCalls[k].chunk) \in 1..size
                  /\ k < Len(scoreCalls) => Len(scoreCalls[k].chunk) = size
            /\ ScoredAddresses(Len(scoreCalls)) = batchIn.addresses
            /\ Len(batchResult) = n
            /\ \A i \in 1..n :
                  /\ batchResult[i].address = ToLowerCase(batchIn.addresses[i])
                  /\ batchResult[i].own =
                        SumHeld(own \cap (1..Len(sent)), batchIn.addresses[i])

\* C25 witness: three addresses with chunk size 2 were scored in two calls, the
\* second with the one remaining address; 0xb, with a score of 0 under one strategy
\* and none under the other, has own 0
C25_Witness ==
    /\ batchPc = "returned"
    /\ batchIn.addresses = <<"0xa", "0xb", "0xD">> /\ batchIn.size = 2
    /\ ~batchIn.includeDelegations
    /\ Len(scoreCalls) = 2 /\ scoreCalls[2].chunk = <<"0xD">>
    /\ batchResult = <<[address |-> "0xa", own |-> 100, delegated |-> NoValue],
                       [address |-> "0xb", own |-> 0, delegated |-> NoValue],
                       [address |-> "0xd", own |-> 100, delegated |-> NoValue]>>

\* C26 as claimed: with includeDelegations = false no strategy named "delegation" is
\* sent to the scoring engine, and every address's own power is the sum of its
\* scores over all the strategies sent, whatever their number and order.
C26_OwnIsSumOfAllStrategies ==
    (batchPc = "returned" /\ ~batchIn.includeDelegations) =>
        /\ \A k \in 1..Len(scoreCalls) : \A j \in 1..Len(scoreCalls[k].strategies) :
              scoreCalls[k].strategies[j] # "delegation"
        /\ \A i \in 1..Len(batchResult) :
              batchResult[i].own = SumHeld(1..Len(sent), batchIn.addresses[i])

----------------------------------------------------------------------------
(* Properties of the unified-scores manager *)

\* C35 as claimed: when a refresh has committed a snapshot and written it to the
\* file, and the process restarts with the same schema version, getData() after
\* loading returns exactly the data and the lastUpdatedAt it returned just before
\* the restart.
C35_RoundTrip ==
    (usRestarted /\ usFile = [kind |-> "json", content |-> usBefore.data]) =>
        usAfter = usBefore

----------------------------------------------------------------------------
(* Properties of two managers side by side *)

\* the other manager
OtherManager(m) == CHOOSE k \in Managers : k # m

\* C31: the two managers hold separate flags and separate snapshots: every operation
\* on one manager leaves the other one's flag, snapshot, file and pending compute
\* as they are, and whether an update() call starts a compute depends on the flag
\* of its own manager only, whatever the other one is doing or has suffered.
C31_ManagersIndependent ==
    [][ \A m \in Managers :
          /\ (pairOp'.mgr # m) => mgrs'[m] = mgrs[m]
          /\ (pairOp' = [kind |-> "update", mgr |-> m] /\ <<mgrs, pairOp>>' # <<mgrs, pairOp>>) =>
                /\ mgrs'[m].result = (IF mgrs[m].isUpdating THEN "skipped" ELSE "pending")
                /\ mgrs'[m].pending = mgrs[m].pending + (IF mgrs[m].isUpdating THEN 0 ELSE 1)
                /\ mgrs'[m].data = mgrs[m].data
     ]_vars

\* C31 witness: an update() of one manager, which serves a committed snapshot,
\* started its compute while the refresh of the other, which still holds its
\* default, was in flight
C31_Witness ==
    /\ pairOp = [kind |-> "update", mgr |-> "voting"]
    /\ mgrs["voting"].result = "pending" /\ mgrs["voting"].data.lastUpdatedAt > 0
    /\ mgrs["distribution"].isUpdating /\ mgrs["distribution"].data = DefaultData

----------------------------------------------------------------------------
(* Properties of the interval-driven MetricManager *)

\* C32 as claimed: at no time are two updateFn() invocations of the manager
\* unsettled, also when a timer tick fires while the bootstrapping run or an
\* earlier tick's run is still awaiting updateFn().
C32_OneComputeInFlight == oldInFlight <= 1

----------------------------------------------------------------------------
(* Properties of calculateTotalScore *)

\* the ids of the pools among the events
PoolIds == {totalIn.events[i].id : i \in 1..Len(totalIn.events)}

\* the greatest updatedAtTimestamp among the events of pool p
LatestOf(p) ==
    CHOOSE u \in {totalIn.events[i].updatedAt : i \in 1..Len(totalIn.events)} :
        /\ \E i \in 1..Len(totalIn.events) :
              totalIn.events[i].id = p /\ totalIn.events[i].updatedAt = u
        /\ \A i \in 1..Len(totalIn.events) :
              totalIn.events[i].id = p => totalIn.events[i].updatedAt <= u

\* what a record r contributes at the time of the call
Distributed(r) == r.amount + r.flowRate * (totalIn.now - r.updatedAt)

\* the sum of what the records of `pick` contribute, pick being a map from pool ids
RECURSIVE SumPicked(_, _)
SumPicked(P, pick) ==
    IF P = {} THEN 0
    ELSE LET p == CHOOSE x \in P : TRUE
         IN  Distributed(pick[p]) + SumPicked(P \ {p}, pick)

\* C33: calculateTotalScore counts each pool among the events once, with one of
\* the pool's records of greatest updatedAtTimestamp: totalScore is
\* additionalTotalScore * 10^18 plus the sum over these records of
\* totalAmountDistributedUntilUpdatedAt + flowRate * (now - updatedAtTimestamp),
\* divided by 10^18 and truncated towards zero; poolCount is the number of
\* distinct pools.
C33_TotalScore ==
    totalPc = "done" =>
        /\ totalOut.poolCount = Cardinality(PoolIds)
        /\ totalOut.additionalTotalScore = totalIn.additional
        /\ \E pick \in [PoolIds -> PoolRecords] :
              /\ \A p \in PoolIds :
                    /\ pick[p].id = p
                    /\ pick[p].updatedAt = LatestOf(p)
                    /\ \E i \in 1..Len(totalIn.events) : totalIn.events[i] = pick[p]
              /\ LET raw == totalIn.additional * WeiPerToken + SumPicked(PoolIds, pick)
                 IN  totalOut.totalScore =
                        (IF raw >= 0 THEN raw \div WeiPerToken
                                     ELSE 0 - ((0 - raw) \div WeiPerToken))

\* C33 witness: two pools, one with an older event first and a newer one after it,
\* and a total that the division truncates
C33_Witness ==
    /\ totalPc = "done" /\ totalOut.poolCount = 2 /\ Len(totalIn.events) = 3
    /\ totalIn.events[1].id = totalIn.events[3].id
    /\ totalIn.events[1].updatedAt < totalIn.events[3].updatedAt
    /\ Distributed(totalIn.events[1]) # Distributed(totalIn.events[3])
    /\ totalOut.totalScore * WeiPerToken
         # totalIn.additional * WeiPerToken + Distributed(totalIn.events[2])
                                            + Distributed(totalIn.events[3])

----------------------------------------------------------------------------
(* Properties of createPeriodicTask *)

\* C40: at most one execution of the task is ever in flight; while one is, no
\* timer for the next is pending; when an execution finishes, by returning or by
\* throwing, exactly one timer is set, due intervalMs after that moment; and an
\* execution other than the first starts no earlier than that.
C40_NoOverlap ==
    /\ [](taskInFlight <= 1)
    /\ [](taskInFlight = 1 => taskTimers = {})
    /\ [][ /\ (taskInFlight' < taskInFlight) =>
                /\ taskTimers' = {taskLast'.finishedAt + taskInterval}
                /\ taskLast'.finishedAt = sysNow
           /\ (taskInFlight' > taskInFlight /\ taskInterval # 0) =>
                /\ taskLast'.startedAt >= taskLast.finishedAt + taskInterval
                /\ taskInFlight = 0
        ]_vars

\* C40 witness: a run threw, and the next run began exactly intervalMs after it
C40_Witness ==
    /\ taskInFlight = 1 /\ taskLast.outcome = "threw"
    /\ taskLast.startedAt = taskLast.finishedAt + taskInterval

\* C39 as claimed: whatever the address list and config.vpCalcChunkSize, the chunk
\* loop ends, after no more iterations than there are addresses (ceil(N / size) of
\* them for a positive size), one scoring call is made per chunk, and with no
\* address no scoring call is made and the result is empty.
C39_ChunkLoopEnds ==
    /\ Len(chunks) <= Len(batchIn.addresses)
    /\ (batchPc = "returned" /\ batchIn.size > 0) =>
          Len(scoreCalls) = (Len(batchIn.addresses) + batchIn.size - 1) \div batchIn.size
    /\ (batchPc = "returned" /\ batchIn.addresses = <<>>) =>
          scoreCalls = <<>> /\ batchResult = <<>>

====
